---- MODULE Spec2Model ----
(***************************************************************************)
(* VESPER42: the outline generator (backend/generators/outline-generator), *)
(* the screenplay text parser (advanced-parser) and the pattern            *)
(* recognition engine, as state machines.                                  *)
(*                                                                         *)
(* Numbers.  JavaScript numbers that are not integers are modelled as      *)
(* exact rationals [num, den] with den > 0; NaN is [0, 0], Infinity a      *)
(* positive num over den 0.  An IMDb rating is stored as                   *)
(* an integer number of hundredths (752 is the rating 7.52), a page count  *)
(* as an integer.  Math.round(x) is floor(x + 1/2).                        *)
(*                                                                         *)
(* Optional values.  A JavaScript value that may be undefined or null is a *)
(* sequence of length 0 (absent) or 1 (present).                           *)
(***************************************************************************)
EXTENDS Integers, Sequences, FiniteSets, TLC

\* ------------------------------------------------------------------ bounds
MaxScripts == 2
MaxBeatRows == 1
MaxTargetLength == 4
MaxLines == 3
MaxBlankPages == 1
MaxFragments == 3
MaxToneCalls == 2
MaxBeatScenes == 3
MaxSaves == 2
MaxCorpus == 2
MaxRuns == 2
MaxFetched == 3

\* ------------------------------------------------------- program constants
DefaultTotalPages == 110
DefaultAct1End == 30
DefaultAct2aMidpoint == 60
DefaultAct2bEnd == 90
DefaultPageCount == 110
SimilarLimit == 10
MinRatingHundredths == 700
successThreshold == 700
TopGenresLimit == 5
BadRequest == 400
Ok == 200
LinesPerPage == 60
CueMaxLength == 30
Null == -1

VARIABLES
  scripts,           \* table scripts: sequence of rows, the id is the index
  story_beats,       \* table story_beats: set of rows, unique per (script_id, beat_type)
  learned_patterns,  \* table learned_patterns: sequence of rows
  patterns,          \* ScriptOutlineGenerator.patterns: <<>> (null) or <<rows>>
  result,            \* what the last call or request returned, [kind |-> "none"] when consumed
  lines,             \* text.split('\n') of the script being parsed: a sequence of lines,
                     \* each line a sequence of characters
  parsed,            \* what the parser has produced so far: [stage, scenes]
  toneText,          \* the text given to detectTone, as the fragments it is made of
  tone,              \* the labels detectTone returned for it, one per call
  beatScenes,        \* the scenes given to identifyBeats
  scenesTable,       \* table scenes: sequence of rows, the id is the index
  charactersTable,   \* table characters: sequence of rows, the id is the index
  dialogueTable,     \* table dialogue: sequence of rows, the id is the index
  saves,             \* how many times the parse result has been saved
  saveErrors,        \* whether a write of a save has returned an error or no row
  identifiedBeats,   \* what identifyBeats returned for them: <<>> before the call, else <<the array>>
  corpus,            \* the rows the pattern engine reads: the scripts in id order, each with
                     \* its scenes count and its characters, dialogue, story_beats and
                     \* performances rows
  enginePatterns,    \* PatternRecognitionEngine.patterns of the engine instance in use
  engineRun,         \* how the last analyzeAllPatterns ended, and what has happened since
  batch              \* the BatchParser and its run of parseAllScripts: the scripts fetched, the
                     \* index i of the loop, the three counters, how far the run has come

outlineVars == <<scripts, story_beats, learned_patterns, patterns, result>>
parserVars == <<lines, parsed>>
toneVars == <<toneText, tone>>
beatVars == <<beatScenes, identifiedBeats>>
saveVars == <<scenesTable, charactersTable, dialogueTable, saves, saveErrors>>
engineVars == <<corpus, enginePatterns, engineRun>>
vars == <<scripts, story_beats, learned_patterns, patterns, result, lines, parsed, toneText, tone, beatScenes, identifiedBeats, scenesTable, charactersTable, dialogueTable, saves, saveErrors, corpus, enginePatterns, engineRun, batch>>
\* what the operations of one component leave alone
besideOutline == <<parserVars, toneVars, beatVars, saveVars, engineVars, batch>>
besideParser == <<outlineVars, toneVars, beatVars, saveVars, engineVars, batch>>
besideTone == <<outlineVars, parserVars, beatVars, saveVars, engineVars, batch>>
besideBeats == <<outlineVars, parserVars, toneVars, saveVars, engineVars, batch>>
besideEngine == <<scripts, story_beats, patterns, result, parserVars, toneVars, beatVars, saveVars, batch>>
besideBatch == <<outlineVars, parserVars, toneVars, beatVars, saveVars, engineVars>>

\* ------------------------------------------------------------- arithmetic
Rat(n, d) == [num |-> n, den |-> d]
RLess(a, b) == a.num * b.den < b.num * a.den
REq(a, b) == a.num * b.den = b.num * a.den
RLeq(a, b) == a.num * b.den <= b.num * a.den
RMin(a, b) == IF RLess(b, a) THEN b ELSE a

\* Math.round of the rational n/d (d > 0): floor(n/d + 1/2)
Round(n, d) == (2 * n + d) \div (2 * d)

Present(v) == <<v>>
Absent == <<>>
\* JavaScript truthiness of an optional string or number
TruthyStr(o) == o # <<>> /\ o[1] # ""
TruthyNum(o) == o # <<>> /\ o[1] # 0

\* ------------------------------------------------------------ input sets
Genres == {"Action", "Drama"}
\* the rows the corpus is built from; page_count 0 is a null/absent page count
ScriptRows ==
  [genre_tags : {{"Action"}}, imdb_rating : {690, 752, 980}, page_count : {101}]
    \cup {[genre_tags |-> {"Action"}, imdb_rating |-> 700, page_count |-> 0],
          [genre_tags |-> {"Drama"}, imdb_rating |-> 980, page_count |-> 101]}
BeatRowTypes == {"Midpoint"}
BeatRowPages == {55, 62}
PatternTables ==
  {<<>>, <<[pattern_type |-> "structure", pattern_name |-> "optimal_length"]>>}
Premises == {Absent, Present(""), Present("Test premise")}
GenreArgs == {Absent, Present(""), Present("Action")}
TargetLengths == {Absent, Present(110)} \cup {Present(n) : n \in 1..MaxTargetLength}

\* ---------------------------------------------------- outline generator
\* loadPatterns: this.patterns = patterns || []
LoadPatterns(table) == Present(table)

\* mutant: the rating floor is left out of the query
MatchingIdsNoRatingFloor(genre) ==
  {i \in 1..Len(scripts) : genre # <<>> /\ genre[1] \in scripts[i].genre_tags}

\* ids of the rows .contains('genre_tags',[genre]).gte('imdb_rating', 7.0) keeps
MatchingIds(genre) ==
  {i \in 1..Len(scripts) :
     /\ genre # <<>>
     /\ genre[1] \in scripts[i].genre_tags
     /\ scripts[i].imdb_rating >= MinRatingHundredths}

\* .order('imdb_rating', {ascending: false}); rows of equal rating in id order
RECURSIVE OrderByRatingDesc(_)
OrderByRatingDesc(ids) ==
  IF ids = {} THEN <<>>
  ELSE LET top == CHOOSE i \in ids :
                    \A j \in ids :
                      \/ scripts[i].imdb_rating > scripts[j].imdb_rating
                      \/ scripts[i].imdb_rating = scripts[j].imdb_rating /\ i <= j
       IN <<top>> \o OrderByRatingDesc(ids \ {top})

Limit(s, n) == IF Len(s) <= n THEN s ELSE SubSeq(s, 1, n)

\* findSimilarScripts(genre, limit = 10): a sequence of [id, row].  A failed
\* query (data null) returns [] as a query without matching rows does.
FindSimilarScripts(genre) ==
  LET ids == Limit(OrderByRatingDesc(MatchingIds(genre)), SimilarLimit)
  IN [k \in 1..Len(ids) |-> [id |-> ids[k], row |-> scripts[ids[k]]]]

\* s.page_count || 110
PageCountOr(s) == IF s.row.page_count # 0 THEN s.row.page_count ELSE DefaultPageCount

\* similarScripts.reduce((sum, s) => sum + (s.page_count || 110), 0)
RECURSIVE SumPageCounts(_)
SumPageCounts(similar) ==
  IF similar = <<>> THEN 0 ELSE PageCountOr(Head(similar)) + SumPageCounts(Tail(similar))

\* mutant: the milestones are taken from the rounded total
CalculateOptimalStructureFromTotal(similar) ==
  LET total == IF Len(similar) = 0 THEN DefaultTotalPages
               ELSE Round(SumPageCounts(similar), Len(similar))
  IN [totalPages |-> total,
      act1End |-> Round(total, 4),
      act2aMidpoint |-> Round(total, 2),
      act2bEnd |-> Round(3 * total, 4),
      act3End |-> total]

\* calculateOptimalStructure(similarScripts)
CalculateOptimalStructure(similar) ==
  IF Len(similar) = 0
  THEN [totalPages |-> DefaultTotalPages, act1End |-> DefaultAct1End,
        act2aMidpoint |-> DefaultAct2aMidpoint, act2bEnd |-> DefaultAct2bEnd,
        act3End |-> DefaultTotalPages]
  ELSE LET sum == SumPageCounts(similar)
           n == Len(similar)
       IN [totalPages |-> Round(sum, n),
           act1End |-> Round(sum, 4 * n),
           act2aMidpoint |-> Round(sum, 2 * n),
           act2bEnd |-> Round(3 * sum, 4 * n),
           act3End |-> Round(sum, n)]

\* mutant: the override leaves act3End as the corpus gave it
OverrideStructureKeepsAct3End(structure, targetLength) ==
  IF TruthyNum(targetLength)
  THEN LET t == targetLength[1]
       IN [totalPages |-> t,
           act1End |-> Round(t, 4),
           act2aMidpoint |-> Round(t, 2),
           act2bEnd |-> Round(3 * t, 4),
           act3End |-> structure.act3End]
  ELSE structure

\* the override of generateOutline: if (targetLength) { ... }
OverrideStructure(structure, targetLength) ==
  IF TruthyNum(targetLength)
  THEN LET t == targetLength[1]
       IN [totalPages |-> t,
           act1End |-> Round(t, 4),
           act2aMidpoint |-> Round(t, 2),
           act2bEnd |-> Round(3 * t, 4),
           act3End |-> t]
  ELSE structure

\* getDefaultBeats()
GetDefaultBeats ==
  [t \in {"Opening Image", "Inciting Incident", "End of Act 1", "Midpoint",
          "All Is Lost", "Climax", "Resolution"} |->
     CASE t = "Opening Image" -> 1
       [] t = "Inciting Incident" -> 12
       [] t = "End of Act 1" -> 25
       [] t = "Midpoint" -> 60
       [] t = "All Is Lost" -> 75
       [] t = "Climax" -> 95
       [] t = "Resolution" -> 110]

RECURSIVE SumPages(_)
SumPages(rows) ==
  IF rows = {} THEN 0
  ELSE LET r == CHOOSE x \in rows : TRUE IN r.page_number + SumPages(rows \ {r})

\* getBeatTiming(similarScripts): a function beat_type -> page.  A failed
\* query (data null) returns the defaults as a query without rows does.
GetBeatTiming(similar) ==
  IF Len(similar) = 0 THEN GetDefaultBeats
  ELSE LET scriptIds == {similar[k].id : k \in 1..Len(similar)}
           beats == {b \in story_beats : b.script_id \in scriptIds}
       IN IF beats = {} THEN GetDefaultBeats
          ELSE LET types == {b.beat_type : b \in beats}
               IN [t \in types |->
                     LET pages == {b \in beats : b.beat_type = t}
                     IN Round(SumPages(pages), Cardinality(pages))]

\* mutant: a beat type without an average takes its page from the default table
BeatOrDefault(beats, name, fallback) ==
  IF name \in DOMAIN beats /\ beats[name] # 0 THEN beats[name] ELSE GetDefaultBeats[name]

\* beats[name] || fallback
BeatOr(beats, name, fallback) ==
  IF name \in DOMAIN beats /\ beats[name] # 0 THEN beats[name] ELSE fallback

\* similarScripts.reduce((sum, s) => sum + s.imdb_rating, 0), in hundredths
RECURSIVE SumRatings(_)
SumRatings(similar) ==
  IF similar = <<>> THEN 0 ELSE Head(similar).row.imdb_rating + SumRatings(Tail(similar))

\* mutant: the 0.95 ceiling is left out
RawProbabilityUnclipped(similar) ==
  Rat(SumRatings(similar), 100 * Len(similar) * 10)

\* Math.min(0.95, avgRating / 10), before it is rounded for the result
RawProbability(similar) ==
  RMin(Rat(95, 100), Rat(SumRatings(similar), 100 * Len(similar) * 10))

ConfidenceOf(probability) ==
  IF RLess(Rat(75, 100), probability) THEN "high"
  ELSE IF RLess(Rat(65, 100), probability) THEN "medium"
  ELSE "low"

\* mutant: the division by 100 is left out (a percentage is returned)
RoundedProbabilityAsPercent(probability) ==
  Rat(Round(probability.num * 100, probability.den), 1)

\* Math.round(probability * 100) / 100
RoundedProbability(probability) == Rat(Round(probability.num * 100, probability.den), 100)

\* mutant: the confidence is read off the rounded probability
PredictSuccessConfidenceOfRounded(similar) ==
  IF Len(similar) = 0
  THEN [probability |-> Rat(65, 100), confidence |-> "medium",
        reasoning |-> "Based on general patterns (no similar scripts in database)",
        comparables |-> <<>>]
  ELSE LET probability == RoundedProbability(RawProbability(similar))
       IN [probability |-> probability,
           confidence |-> ConfidenceOf(probability),
           reasoning |-> "Based on similar successful scripts",
           comparables |-> [k \in 1..Len(Limit(similar, 3)) |->
                              [id |-> similar[k].id, rating |-> similar[k].row.imdb_rating]]]

\* predictSuccess(similarScripts, genre)
PredictSuccess(similar) ==
  IF Len(similar) = 0
  THEN [probability |-> Rat(65, 100), confidence |-> "medium",
        reasoning |-> "Based on general patterns (no similar scripts in database)",
        comparables |-> <<>>]
  ELSE LET probability == RawProbability(similar)
       IN [probability |-> RoundedProbability(probability),
           confidence |-> ConfidenceOf(probability),
           reasoning |-> "Based on similar successful scripts",
           comparables |-> [k \in 1..Len(Limit(similar, 3)) |->
                              [id |-> similar[k].id, rating |-> similar[k].row.imdb_rating]]]

\* the outline object generateOutline builds (the prose of the beats left out;
\* a page range `a-b` is the pair <<a, b>>)
BuildOutline(premise, genre, structure, beats, similar) ==
  [premise |-> premise,
   genre |-> genre,
   structure |-> structure,
   act1 |-> [pages |-> <<1, structure.act1End>>,
             beats |-> [OpeningImage |-> BeatOr(beats, "Opening Image", 1),
                        ThemeStated |-> 5,
                        IncitingIncident |-> BeatOr(beats, "Inciting Incident", 12),
                        BreakIntoTwo |-> BeatOr(beats, "End of Act 1", structure.act1End)]],
   act2a |-> [pages |-> <<structure.act1End + 1, structure.act2aMidpoint>>,
              beats |-> [BStoryBegins |-> structure.act1End + 5,
                         FunAndGames |-> <<structure.act1End + 10, structure.act2aMidpoint - 5>>,
                         Midpoint |-> BeatOr(beats, "Midpoint", structure.act2aMidpoint)]],
   act2b |-> [pages |-> <<structure.act2aMidpoint + 1, structure.act2bEnd>>,
              beats |-> [BadGuysCloseIn |-> <<structure.act2aMidpoint + 5, structure.act2bEnd - 15>>,
                         AllIsLost |-> BeatOr(beats, "All Is Lost", structure.act2bEnd - 15),
                         BreakIntoThree |-> structure.act2bEnd]],
   act3 |-> [pages |-> <<structure.act2bEnd + 1, structure.act3End>>,
             beats |-> [Finale |-> <<structure.act2bEnd + 1, structure.act3End - 5>>,
                        Climax |-> BeatOr(beats, "Climax", structure.act3End - 10),
                        FinalImage |-> BeatOr(beats, "Resolution", structure.act3End)]],
   prediction |-> PredictSuccess(similar),
   recommendations |-> [targetLengthPages |-> structure.totalPages]]

\* mutant: the pages of the beat table are rescaled to the requested length
OutlineRescalesBeats(premise, genre, targetLength) ==
  LET similar == FindSimilarScripts(genre)
      computed == CalculateOptimalStructure(similar)
      structure == OverrideStructure(computed, targetLength)
      timing == GetBeatTiming(similar)
      beats == IF TruthyNum(targetLength)
               THEN [t \in DOMAIN timing |->
                       Round(timing[t] * targetLength[1], computed.totalPages)]
               ELSE timing
  IN BuildOutline(premise, genre, structure, beats, similar)

\* generateOutline(premise, genre, targetLength = null): the value it resolves to
Outline(premise, genre, targetLength) ==
  LET similar == FindSimilarScripts(genre)
      structure == OverrideStructure(CalculateOptimalStructure(similar), targetLength)
      beats == GetBeatTiming(similar)
  IN BuildOutline(premise, genre, structure, beats, similar)

\* this.patterns once generateOutline has passed `if (!this.patterns)
\* await this.loadPatterns()`
LoadedPatterns == IF patterns = Absent THEN LoadPatterns(learned_patterns) ELSE patterns

\* mutant: the recommended length is taken from a learned optimal_length pattern
OutlineWithLearnedLength(loaded, premise, genre, targetLength) ==
  LET o == Outline(premise, genre, targetLength)
  IN IF \E k \in 1..Len(loaded[1]) : loaded[1][k].pattern_name = "optimal_length"
     THEN [o EXCEPT !.recommendations.targetLengthPages = DefaultTotalPages]
     ELSE o

\* generateOutline on a generator whose this.patterns is `loaded`: the field
\* is in scope and nothing after the load reads it
OutlineWith(loaded, premise, genre, targetLength) == Outline(premise, genre, targetLength)

\* POST /api/generate-outline of api-server: the body's premise and genre are
\* required, the outline is the generator's
PostGenerateOutline(body) ==
  IF ~TruthyStr(body.premise) \/ ~TruthyStr(body.genre)
  THEN [kind |-> "response", status |-> BadRequest, success |-> FALSE,
        error |-> "Missing required fields: premise and genre", outline |-> <<>>,
        args |-> <<body.premise, body.genre, body.targetLength>>]
  ELSE [kind |-> "response", status |-> Ok, success |-> TRUE, error |-> "",
        outline |-> Present(OutlineWith(LoadedPatterns, body.premise, body.genre,
                                        body.targetLength)),
        args |-> <<body.premise, body.genre, body.targetLength>>]

\* ------------------------------------------------------------ the parser
\* characters and the lines the texts are made of
Whitespace == {" ", "\t"}
UpperLetters == <<"A", "B", "C", "D", "E", "F", "G", "H", "I", "J", "K", "L", "M", "N", "O", "P", "Q", "R", "S", "T", "U", "V", "W", "X", "Y", "Z">>
LowerLetters == <<"a", "b", "c", "d", "e", "f", "g", "h", "i", "j", "k", "l", "m", "n", "o", "p", "q", "r", "s", "t", "u", "v", "w", "x", "y", "z">>
UpperSet == {UpperLetters[k] : k \in 1..26}
\* String.prototype.toUpperCase, one character
ToUpper(c) ==
  IF \E k \in 1..26 : LowerLetters[k] = c
  THEN UpperLetters[CHOOSE k \in 1..26 : LowerLetters[k] = c]
  ELSE c
UpperCase(str) == [k \in 1..Len(str) |-> ToUpper(str[k])]

LineHeader == <<" ", " ", "e", "x", "t", ".", " ", "b", " ", "-", " ", "d", "u", "s", "k">>
LineHeaderMalformed == <<"E", "X", "T", ".", " ", "C", " ", "-", " ", "N", "O", "O", "N">>
LineCue == <<"B", "O", "B">>
LineSpeech == <<"H", "i", "!">>
LineCut == <<"C", "U", "T", " ", "T", "O", ":">>
LineEmpty == <<>>
LineBlank == <<" ">>
Vocabulary == {LineHeader, LineHeaderMalformed, LineCue, LineSpeech, LineCut}

\* a page of whitespace-only lines
BlankPage == [k \in 1..LinesPerPage |-> LineBlank]

\* String.prototype.trim
\* without the leading white space
TrimLeft(str) ==
  IF \A k \in 1..Len(str) : str[k] \in Whitespace THEN <<>>
  ELSE SubSeq(str, CHOOSE k \in 1..Len(str) :
                     str[k] \notin Whitespace /\ \A j \in 1..(k - 1) : str[j] \in Whitespace,
              Len(str))
\* without the trailing white space
TrimRight(str) ==
  IF \A k \in 1..Len(str) : str[k] \in Whitespace THEN <<>>
  ELSE SubSeq(str, 1,
              CHOOSE k \in 1..Len(str) :
                str[k] \notin Whitespace /\ \A j \in (k + 1)..Len(str) : str[j] \in Whitespace)
Trim(str) == TrimRight(TrimLeft(str))

\* whether word (upper case) is at position p of str, case-insensitively
WordAt(str, p, word) ==
  /\ p + Len(word) - 1 <= Len(str)
  /\ \A k \in 1..Len(word) : ToUpper(str[p + k - 1]) = word[k]

SceneTypes == <<<<"I", "N", "T", ".">>, <<"E", "X", "T", ".">>>>
TimesOfDay == <<<<"D", "A", "Y">>, <<"N", "I", "G", "H", "T">>, <<"D", "A", "W", "N">>, <<"D", "U", "S", "K">>, <<"C", "O", "N", "T", "I", "N", "U", "O", "U", "S">>>>

\* /^(INT\.|EXT\.)/i
IsSceneHeader(line) == \E k \in 1..2 : WordAt(line, 1, SceneTypes[k])

\* /^[A-Z][A-Z\s]{2,}$/
IsCue(line) ==
  /\ Len(line) >= 3
  /\ line[1] \in UpperSet
  /\ \A k \in 2..Len(line) : line[k] \in UpperSet \cup Whitespace

\* \s+-\s+(DAY|NIGHT|DAWN|DUSK|CONTINUOUS) at position p of line
TailMatches(line, p) ==
  \E d \in (p + 1)..Len(line) :
     /\ \A k \in p..(d - 1) : line[k] \in Whitespace
     /\ line[d] = "-"
     /\ \E t \in (d + 2)..Len(line) :
          /\ \A k \in (d + 1)..(t - 1) : line[k] \in Whitespace
          /\ \E w \in 1..5 : WordAt(line, t, TimesOfDay[w])

\* the time-of-day word of the tail that matches at position p
TailTime(line, p) ==
  LET d == CHOOSE d \in (p + 1)..Len(line) :
             /\ \A k \in p..(d - 1) : line[k] \in Whitespace
             /\ line[d] = "-"
             /\ \E t \in (d + 2)..Len(line) :
                  /\ \A k \in (d + 1)..(t - 1) : line[k] \in Whitespace
                  /\ \E w \in 1..5 : WordAt(line, t, TimesOfDay[w])
      t == CHOOSE t \in (d + 2)..Len(line) :
             /\ \A k \in (d + 1)..(t - 1) : line[k] \in Whitespace
             /\ \E w \in 1..5 : WordAt(line, t, TimesOfDay[w])
      w == CHOOSE w \in 1..5 :
             WordAt(line, t, TimesOfDay[w]) /\ \A v \in 1..(w - 1) : ~WordAt(line, t, TimesOfDay[v])
  IN SubSeq(line, t, t + Len(TimesOfDay[w]) - 1)

\* line.match(/^(INT\.|EXT\.)\s+(.+?)\s+-\s+(DAY|NIGHT|DAWN|DUSK|CONTINUOUS)/i):
\* <<>> for null, else <<[1 |-> type, 2 |-> location, 3 |-> time]>>.  The
\* first \s+ is greedy (the longest run that leaves a match), the location lazy
\* (the shortest that leaves a match).
HeaderMatch(line) ==
  LET \* the location is line[b..e], the tail starts at e + 1
      fits(b, e) ==
        /\ IsSceneHeader(line)
        /\ 6 <= b /\ b <= e /\ e < Len(line)
        /\ \A k \in 5..(b - 1) : line[k] \in Whitespace
        /\ TailMatches(line, e + 1)
      starts == {b \in 6..Len(line) : \E e \in b..Len(line) : fits(b, e)}
  IN IF starts = {} THEN <<>>
     ELSE LET b == CHOOSE x \in starts : \A y \in starts : y <= x
              e == CHOOSE x \in b..Len(line) :
                     fits(b, x) /\ \A y \in b..(x - 1) : ~fits(b, y)
          IN <<[type |-> SubSeq(line, 1, 4),
                location |-> SubSeq(line, b, e),
                time |-> TailTime(line, e + 1)]>>

Unknown == <<"U", "N", "K", "N", "O", "W", "N">>

\* mutant: an unparsable header keeps its own text as the location
OpenSceneLocationFromLine(line, sceneNumber, pageCount) ==
  LET match == HeaderMatch(line)
  IN [scene_number |-> sceneNumber,
      scene_type |-> IF match # <<>> THEN UpperCase(match[1].type) ELSE SceneTypes[1],
      location |-> IF match # <<>> THEN Trim(match[1].location) ELSE line,
      time |-> IF match # <<>> THEN UpperCase(match[1].time) ELSE TimesOfDay[1],
      page_start |-> pageCount,
      page_end |-> Null,
      content |-> <<>>,
      dialogue_lines |-> <<>>,
      action_lines |-> <<>>,
      characters_present |-> <<>>]

\* the scene object a header line opens (extractScenes, "Start new scene")
OpenScene(line, sceneNumber, pageCount) ==
  LET match == HeaderMatch(line)
  IN [scene_number |-> sceneNumber,
      scene_type |-> IF match # <<>> THEN UpperCase(match[1].type) ELSE SceneTypes[1],
      location |-> IF match # <<>> THEN Trim(match[1].location) ELSE Unknown,
      time |-> IF match # <<>> THEN UpperCase(match[1].time) ELSE TimesOfDay[1],
      page_start |-> pageCount,
      page_end |-> Null,
      content |-> <<>>,
      dialogue_lines |-> <<>>,
      action_lines |-> <<>>,
      characters_present |-> <<>>]

\* mutant: the closed scene keeps page_end null
CloseSceneKeepsNull(scene, pageCount) == scene

\* currentScene.page_end = pageCount
CloseScene(scene, pageCount) == [scene EXCEPT !.page_end = pageCount]

\* Set.prototype.add on a set kept in insertion order
SetAdd(set, x) == IF \E k \in 1..Len(set) : set[k] = x THEN set ELSE Append(set, x)

\* "Add content to current scene": the line (trimmed) joins the content, a cue
\* joins characters_present, and the line is filed as dialogue or action;
\* prev is the line before it in the text, <<>> when there is none (i = 0)
AddToScene(scene, line, prev) ==
  LET withContent == [scene EXCEPT !.content = Append(@, line)]
      withCue ==
        IF IsCue(line) /\ Len(line) < CueMaxLength
        THEN [withContent EXCEPT !.characters_present = SetAdd(@, Trim(line))]
        ELSE withContent
  IN IF IsCue(line) THEN withCue
     ELSE IF Len(line) > 0 /\ prev # <<>> /\ IsCue(Trim(prev[1]))
          THEN [withCue EXCEPT !.dialogue_lines = Append(@, line)]
     ELSE IF Len(line) > 0
          THEN [withCue EXCEPT !.action_lines = Append(@, line)]
     ELSE withCue

\* mutant: the text before the first header is scene 0
ScanStartImplicitScene ==
  [scenes |-> <<>>, currentScene |-> <<OpenScene(<<>>, 0, 0)>>, sceneNumber |-> 0, pageCount |-> 0]

\* the locals of extractScenes before the loop
ScanStart == [scenes |-> <<>>, currentScene |-> <<>>, sceneNumber |-> 0, pageCount |-> 0]

\* mutant: a page is counted when its last line has been read
ScanLineCountsFullPages(st, text, i) ==
  LET line == Trim(text[i + 1])
      prev == IF i > 0 THEN <<text[i]>> ELSE <<>>
      opened ==
        IF IsSceneHeader(line)
        THEN [st EXCEPT
                !.scenes = IF st.currentScene # <<>>
                           THEN Append(@, CloseScene(st.currentScene[1], st.pageCount))
                           ELSE @,
                !.sceneNumber = @ + 1,
                !.currentScene = <<OpenScene(line, st.sceneNumber + 1, st.pageCount)>>]
        ELSE st
      added ==
        IF opened.currentScene # <<>>
        THEN [opened EXCEPT !.currentScene = <<AddToScene(opened.currentScene[1], line, prev)>>]
        ELSE opened
  IN IF (i + 1) % LinesPerPage = 0 THEN [added EXCEPT !.pageCount = @ + 1] ELSE added

\* one pass of the loop body, for the line at index i (0-based, as in the code)
ScanLine(st, text, i) ==
  LET line == Trim(text[i + 1])
      prev == IF i > 0 THEN <<text[i]>> ELSE <<>>
      opened ==
        IF IsSceneHeader(line)
        THEN [st EXCEPT
                !.scenes = IF st.currentScene # <<>>
                           THEN Append(@, CloseScene(st.currentScene[1], st.pageCount))
                           ELSE @,
                !.sceneNumber = @ + 1,
                !.currentScene = <<OpenScene(line, st.sceneNumber + 1, st.pageCount)>>]
        ELSE st
      added ==
        IF opened.currentScene # <<>>
        THEN [opened EXCEPT !.currentScene = <<AddToScene(opened.currentScene[1], line, prev)>>]
        ELSE opened
  IN IF i % LinesPerPage = 0 THEN [added EXCEPT !.pageCount = @ + 1] ELSE added

\* the loop: for (let i = 0; i < lines.length; i++), over the indices lo..hi-1
\* in order: the first half of the range, then the second from where the first
\* ended.  (The test of half makes TLC finish the first half before it starts
\* the second; the halving keeps the evaluation shallow on long texts.)
RECURSIVE ScanRange(_, _, _, _)
ScanRange(st, text, lo, hi) ==
  IF lo >= hi THEN st
  ELSE IF hi = lo + 1 THEN ScanLine(st, text, lo)
  ELSE LET mid == (lo + hi) \div 2
           half == ScanRange(st, text, lo, mid)
       IN IF half.pageCount >= 0 THEN ScanRange(half, text, mid, hi) ELSE half

Scan(st, text) == ScanRange(st, text, 0, Len(text))

\* mutant: the smoothing term is left out
DialogueRatioUnsmoothed(scene) ==
  Rat(Len(scene.dialogue_lines), Len(scene.dialogue_lines) + Len(scene.action_lines))

\* dialogue_lines.length / (dialogue_lines.length + action_lines.length + 1)
DialogueRatio(scene) ==
  Rat(Len(scene.dialogue_lines), Len(scene.dialogue_lines) + Len(scene.action_lines) + 1)

\* the closing forEach: the Set becomes an array, dialogue_ratio is added
FinishScene(scene) == scene @@ [dialogue_ratio |-> DialogueRatio(scene)]

\* scenes.forEach(scene => { ... })
RECURSIVE FinishScenes(_)
FinishScenes(all) ==
  IF all = <<>> THEN <<>> ELSE <<FinishScene(Head(all))>> \o FinishScenes(Tail(all))

\* "Save last scene"
SaveLastScene(st) ==
  IF st.currentScene # <<>>
  THEN Append(st.scenes, CloseScene(st.currentScene[1], st.pageCount))
  ELSE st.scenes

\* mutant: the scene open at the end of the text is not saved
ExtractScenesDropsLast(text) ==
  FinishScenes(Scan(ScanStart, text).scenes)

\* extractScenes(text), text given as text.split('\n')
ExtractScenes(text) ==
  FinishScenes(SaveLastScene(Scan(ScanStart, text)))

NotParsed == [stage |-> "text", script_id |-> 1, scenes |-> <<>>, characters |-> <<>>, dialogue |-> <<>>, beats |-> <<>>]

\* ------------------------------------------------------------- detectTone
\* the em-dash, one character
EmDash == "EMDASH"
Digits == {"0", "1", "2", "3", "4", "5", "6", "7", "8", "9"}
LowerSet == {LowerLetters[k] : k \in 1..26}
\* the characters \b takes as word characters: [A-Za-z0-9_]
IsWordChar(c) == c \in UpperSet \cup LowerSet \cup Digits \cup {"_"}

\* String.prototype.toLowerCase
ToLower(c) ==
  IF \E k \in 1..26 : UpperLetters[k] = c
  THEN LowerLetters[CHOOSE k \in 1..26 : UpperLetters[k] = c]
  ELSE c
LowerCase(str) == [k \in 1..Len(str) |-> ToLower(str[k])]

\* the literal lit is at position p of str, case as written
LitAt(str, p, lit) ==
  /\ p + Len(lit) - 1 <= Len(str)
  /\ \A k \in 1..Len(lit) : str[p + k - 1] = lit[k]
\* /lit/.test(str)
HasLit(str, lit) == \E p \in 1..Len(str) : LitAt(str, p, lit)
\* /word/i.test(str), word given in upper case
HasWord(str, word) == \E p \in 1..Len(str) : WordAt(str, p, word)
\* \b between position p - 1 and position p of str (p in 1..Len(str) + 1)
WordBoundary(str, p) ==
  LET before == p > 1 /\ IsWordChar(str[p - 1])
      after == p <= Len(str) /\ IsWordChar(str[p])
  IN before # after

\* /\byell|shout|scream\b/i.test(str): the \b before binds to yell only, the
\* \b after to scream only
YellShoutScream(str) ==
  \/ \E p \in 1..Len(str) : WordBoundary(str, p) /\ WordAt(str, p, <<"Y", "E", "L", "L">>)
  \/ HasWord(str, <<"S", "H", "O", "U", "T">>)
  \/ \E p \in 1..Len(str) :
        WordAt(str, p, <<"S", "C", "R", "E", "A", "M">>) /\ WordBoundary(str, p + 6)

ToneLabels == <<"intense", "questioning", "hesitant", "aggressive", "tender", "humorous", "neutral">>

\* mutant: the question mark is tested before the exclamation rule
DetectToneQuestionFirst(text) ==
  IF HasLit(text, <<"?">>) THEN ToneLabels[2]
  ELSE IF HasLit(text, <<"!">>) \/ YellShoutScream(text) THEN ToneLabels[1]
  ELSE ToneLabels[7]

\* detectTone(text)
DetectTone(text) ==
  LET lowerText == LowerCase(text)
  IN IF HasLit(text, <<"!">>) \/ YellShoutScream(text) THEN ToneLabels[1]
     ELSE IF HasLit(text, <<"?">>) THEN ToneLabels[2]
     ELSE IF HasLit(text, <<".", ".", ".">>) \/ HasLit(text, <<EmDash>>) THEN ToneLabels[3]
     ELSE IF \/ HasWord(text, <<"F", "U", "C", "K">>)
             \/ HasWord(text, <<"S", "H", "I", "T">>)
             \/ HasWord(text, <<"D", "A", "M", "N">>) THEN ToneLabels[4]
     ELSE IF \/ HasWord(lowerText, <<"L", "O", "V", "E">>)
             \/ HasWord(lowerText, <<"C", "A", "R", "E">>)
             \/ HasWord(lowerText, <<"S", "W", "E", "E", "T">>) THEN ToneLabels[5]
     ELSE IF \/ HasWord(lowerText, <<"H", "A">>)
             \/ HasWord(lowerText, <<"H", "E", "H">>)
             \/ HasWord(lowerText, <<"F", "U", "N", "N", "Y">>) THEN ToneLabels[6]
     ELSE ToneLabels[7]

\* the pieces the texts given to detectTone are made of
FragBang == <<"!">>
FragQuestion == <<"?">>
FragEllipsis == <<".", ".", ".">>
FragDash == <<EmDash>>
FragDamn == <<"D", "A", "M", "N">>
FragLove == <<"l", "o", "v", "e">>
FragHa == <<"h", "a">>
FragYell == <<"Y", "e", "l", "l">>
FragShout == <<"s", "h", "o", "u", "t">>
FragScream == <<"s", "c", "r", "e", "a", "m">>
FragLetter == <<"s">>
FragSpace == <<" ">>
Fragments == {FragBang, FragQuestion, FragEllipsis, FragDash, FragDamn, FragLove, FragHa, FragYell, FragShout, FragScream, FragLetter, FragSpace}

\* the text a sequence of fragments spells
RECURSIVE Flatten(_)
Flatten(frags) == IF frags = <<>> THEN <<>> ELSE Head(frags) \o Flatten(Tail(frags))

NoResult == [kind |-> "none", status |-> 0, success |-> FALSE, error |-> "",
             outline |-> <<>>, args |-> <<>>]

\* new BatchParser(), parseAllScripts not called yet
NewBatchParser ==
  [stage |-> "new", fetched |-> <<>>, i |-> 0,
   successCount |-> 0, failCount |-> 0, skippedCount |-> 0]

\* no analyzeAllPatterns yet, on an engine that is new
NoRun == [outcome |-> "none", runs |-> 0, changed |-> FALSE, again |-> FALSE,
          used |-> FALSE, sameInstance |-> FALSE]

\* ------------------------------------------------------------------ actions
Init ==
  /\ scripts = <<>>
  /\ story_beats = {}
  /\ learned_patterns \in PatternTables
  /\ patterns = Absent
  /\ result = NoResult
  /\ lines = <<LineEmpty>>
  /\ parsed = NotParsed
  /\ toneText = <<>>
  /\ tone = <<>>
  /\ beatScenes = <<>>
  /\ identifiedBeats = <<>>
  /\ scenesTable = <<>>
  /\ charactersTable = <<>>
  /\ dialogueTable = <<>>
  /\ saves = 0
  /\ saveErrors = FALSE
  /\ corpus = <<>>
  /\ enginePatterns = <<>>
  /\ engineRun = NoRun
  /\ batch = NewBatchParser

\* a script is ingested
AddScript(row) ==
  /\ result.kind = "none"
  /\ Len(scripts) < MaxScripts
  /\ scripts' = Append(scripts, row)
  /\ UNCHANGED <<story_beats, learned_patterns, patterns, result>>
  /\ UNCHANGED besideOutline

\* a story beat of a stored script is saved: upsert on (script_id, beat_type)
SaveBeat(id, type, page) ==
  /\ result.kind = "none"
  /\ id \in 1..Len(scripts)
  /\ LET kept == {b \in story_beats : ~(b.script_id = id /\ b.beat_type = type)}
     IN /\ Cardinality(kept) < MaxBeatRows
        /\ story_beats' = kept \cup {[script_id |-> id, beat_type |-> type, page_number |-> page]}
  /\ UNCHANGED <<scripts, learned_patterns, patterns, result>>
  /\ UNCHANGED besideOutline

\* mutant: generateOutline validates its arguments and rejects
GenerateOutlineValidating(premise, genre, targetLength) ==
  /\ result.kind = "none"
  /\ patterns' = patterns
  /\ result' = IF ~TruthyStr(premise) \/ ~TruthyStr(genre)
               THEN [kind |-> "call", status |-> 0, success |-> FALSE,
                     error |-> "Missing required fields: premise and genre",
                     outline |-> <<>>, args |-> <<premise, genre, targetLength>>]
               ELSE [kind |-> "call", status |-> 0, success |-> TRUE, error |-> "",
                     outline |-> Present(Outline(premise, genre, targetLength)),
                     args |-> <<premise, genre, targetLength>>]
  /\ UNCHANGED <<scripts, story_beats, learned_patterns>>
  /\ UNCHANGED besideOutline

\* generator.generateOutline(premise, genre, targetLength) called directly
GenerateOutline(premise, genre, targetLength) ==
  /\ result.kind = "none"
  /\ patterns' = LoadedPatterns
  /\ result' = [kind |-> "call", status |-> 0, success |-> TRUE, error |-> "",
                outline |-> Present(OutlineWith(LoadedPatterns, premise, genre, targetLength)),
                args |-> <<premise, genre, targetLength>>]
  /\ UNCHANGED <<scripts, story_beats, learned_patterns>>
  /\ UNCHANGED besideOutline

\* a POST /api/generate-outline request is served; the generator is called
\* only for a body that passes the validation
HandleGenerateOutline(body) ==
  /\ result.kind = "none"
  /\ result' = PostGenerateOutline(body)
  /\ patterns' = IF result'.success THEN LoadedPatterns ELSE patterns
  /\ UNCHANGED <<scripts, story_beats, learned_patterns>>
  /\ UNCHANGED besideOutline

\* the caller takes the returned value
Return ==
  /\ result.kind # "none"
  /\ result' = NoResult
  /\ UNCHANGED <<scripts, story_beats, learned_patterns, patterns>>
  /\ UNCHANGED besideOutline

Next ==
  \/ \E row \in ScriptRows : AddScript(row)
  \/ \E id \in 1..MaxScripts, type \in BeatRowTypes, page \in BeatRowPages : SaveBeat(id, type, page)
  \/ \E premise \in Premises, genre \in GenreArgs, targetLength \in TargetLengths :
       GenerateOutline(premise, genre, targetLength)
  \/ \E body \in [premise : Premises, genre : GenreArgs, targetLength : {Absent, Present(110)}] :
       HandleGenerateOutline(body)
  \/ Return

Spec == Init /\ [][Next]_vars

\* ---------------------------------------------------------- identifyBeats
\* beatTemplates: the catalog, name and page window
BeatTemplates ==
  <<[name |-> "Opening Image", range |-> <<1, 3>>],
    [name |-> "Inciting Incident", range |-> <<10, 15>>],
    [name |-> "End of Act 1", range |-> <<25, 30>>],
    [name |-> "Midpoint", range |-> <<55, 65>>],
    [name |-> "All Is Lost", range |-> <<75, 85>>],
    [name |-> "Climax", range |-> <<90, 100>>],
    [name |-> "Resolution", range |-> <<105, 115>>]>>

InWindow(s, template) ==
  s.page_start >= template.range[1] /\ s.page_start <= template.range[2]
\* scenes.filter(s => s.page_start >= range[0] && s.page_start <= range[1])
MatchingScenes(scenes, template) == SelectSeq(scenes, LAMBDA s : InWindow(s, template))

\* mutant: of the scenes with the most dialogue lines the last one
ImportantSceneLast(matching) ==
  LET best == CHOOSE i \in 1..Len(matching) :
                /\ \A j \in 1..Len(matching) :
                      Len(matching[j].dialogue_lines) <= Len(matching[i].dialogue_lines)
                /\ \A j \in (i + 1)..Len(matching) :
                      Len(matching[j].dialogue_lines) < Len(matching[i].dialogue_lines)
  IN matching[best]

\* matchingScenes.sort(by dialogue_lines.length, descending)[0]: the sort is
\* stable, so of the scenes with the most dialogue lines the first one
ImportantScene(matching) ==
  LET best == CHOOSE i \in 1..Len(matching) :
                /\ \A j \in 1..Len(matching) :
                      Len(matching[j].dialogue_lines) <= Len(matching[i].dialogue_lines)
                /\ \A j \in 1..(i - 1) :
                      Len(matching[j].dialogue_lines) < Len(matching[i].dialogue_lines)
  IN matching[best]

\* mutant: the confidence does not look at the number of matching scenes
BeatOfEvenConfidence(template, matching) ==
  LET importantScene == ImportantScene(matching)
  IN [beat_type |-> template.name,
      page_number |-> importantScene.page_start,
      scene_number |-> importantScene.scene_number,
      location |-> importantScene.location,
      confidence |-> Rat(5, 10)]

\* the beat pushed for a template that has matching scenes
BeatOf(template, matching) ==
  LET importantScene == ImportantScene(matching)
  IN [beat_type |-> template.name,
      page_number |-> importantScene.page_start,
      scene_number |-> importantScene.scene_number,
      location |-> importantScene.location,
      confidence |-> IF Len(matching) > 1 THEN Rat(7, 10) ELSE Rat(5, 10)]

\* mutant: every scene in the window gets a beat of its own
RECURSIVE BeatsPerScene(_, _)
BeatsPerScene(scenes, k) ==
  IF k > Len(BeatTemplates) THEN <<>>
  ELSE LET matching == MatchingScenes(scenes, BeatTemplates[k])
       IN [j \in 1..Len(matching) |-> BeatOf(BeatTemplates[k], <<matching[j]>>)]
            \o BeatsPerScene(scenes, k + 1)

\* beatTemplates.forEach(template => ...), from the k-th template on
RECURSIVE BeatsFrom(_, _)
BeatsFrom(scenes, k) ==
  IF k > Len(BeatTemplates) THEN <<>>
  ELSE LET matching == MatchingScenes(scenes, BeatTemplates[k])
       IN (IF Len(matching) > 0 THEN <<BeatOf(BeatTemplates[k], matching)>> ELSE <<>>)
            \o BeatsFrom(scenes, k + 1)

\* totalPages: Math.ceil(fullText.split('\n').length / 60)
TotalPages(text) == (Len(text) + LinesPerPage - 1) \div LinesPerPage

\* identifyBeats(scenes, fullText); fullText only feeds totalPages, which is
\* not read
IdentifyBeats(scenes) == BeatsFrom(scenes, 1)

\* the scenes identifyBeats is given: what it reads of a scene, with the page
\* where the scene starts and the number of its dialogue lines
ScenePageStarts == {0, 1, 3, 12, 65, 116}
SceneDialogues == {<<>>, <<LineSpeech>>}

\* ------------------------------------- extractCharacters, extractDialogue
\* a finite set of integers as the sequence of its elements in increasing order
RECURSIVE Ascending(_)
Ascending(set) ==
  IF set = {} THEN <<>>
  ELSE LET least == CHOOSE x \in set : \A y \in set : x <= y
       IN <<least>> \o Ascending(set \ {least})

\* the scene numbers of the scenes a character is present in, in scene order
ScenesIn(scenes, name) ==
  Ascending({k \in 1..Len(scenes) :
               \E c \in 1..Len(scenes[k].characters_present) :
                  scenes[k].characters_present[c] = name})

RECURSIVE SumDialogueLines(_, _)
SumDialogueLines(scenes, ks) ==
  IF ks = <<>> THEN 0
  ELSE Len(scenes[Head(ks)].dialogue_lines) + SumDialogueLines(scenes, Tail(ks))

\* characterMap after the two forEach loops, in insertion order: a character
\* enters at the first scene it is present in, in the order of that scene's
\* characters_present
RECURSIVE CharacterNames(_, _)
CharacterNames(scenes, k) ==
  IF k > Len(scenes) THEN <<>>
  ELSE LET later == CharacterNames(scenes, k + 1)
           here == scenes[k].characters_present
       IN here \o SelectSeq(later, LAMBDA n : \A c \in 1..Len(here) : here[c] # n)

CharacterOf(scenes, name) ==
  LET in == ScenesIn(scenes, name)
  IN [name |-> name,
      first_appearance |-> scenes[in[1]].page_start,
      scenes_in |-> [k \in 1..Len(in) |-> scenes[in[k]].scene_number],
      total_lines |-> SumDialogueLines(scenes, in)]

\* Array.prototype.sort((a, b) => b.total_lines - a.total_lines): stable
RECURSIVE SortByTotalLines(_)
SortByTotalLines(chars) ==
  IF chars = <<>> THEN <<>>
  ELSE LET top == CHOOSE i \in 1..Len(chars) :
                    /\ \A j \in 1..Len(chars) : chars[j].total_lines <= chars[i].total_lines
                    /\ \A j \in 1..(i - 1) : chars[j].total_lines < chars[i].total_lines
       IN <<chars[top]>> \o SortByTotalLines(SelectSeq(chars, LAMBDA c : c # chars[top]))

\* extractCharacters(scenes)
ExtractCharacters(scenes) ==
  LET names == CharacterNames(scenes, 1)
  IN SortByTotalLines([k \in 1..Len(names) |-> CharacterOf(scenes, names[k])])

\* /^(INT\.|EXT\.|FADE|CUT)/.test(trimmed): case as written
IsDirective(trimmed) ==
  \/ LitAt(trimmed, 1, <<"I", "N", "T", ".">>)
  \/ LitAt(trimmed, 1, <<"E", "X", "T", ".">>)
  \/ LitAt(trimmed, 1, <<"F", "A", "D", "E">>)
  \/ LitAt(trimmed, 1, <<"C", "U", "T">>)

\* the line sets currentCharacter
SetsCharacter(trimmed) == IsCue(trimmed) /\ Len(trimmed) < CueMaxLength

\* trimmed.split(' ').length
WordCount(trimmed) == 1 + Cardinality({p \in 1..Len(trimmed) : trimmed[p] = " "})

\* the dialogue extractDialogue pushes for one scene: the lines of the
\* content (content.split('\n') adds an empty last line, which is skipped)
\* that come after a cue, are not empty, set no character and are no directive
SceneDialogue(scene) ==
  LET content == scene.content
      spoken == {j \in 1..Len(content) :
                   /\ Len(Trim(content[j])) > 0
                   /\ ~SetsCharacter(Trim(content[j]))
                   /\ ~IsDirective(Trim(content[j]))
                   /\ \E i \in 1..(j - 1) : SetsCharacter(Trim(content[i]))}
      at == Ascending(spoken)
      speaker(j) == CHOOSE i \in 1..(j - 1) :
                      /\ SetsCharacter(Trim(content[i]))
                      /\ \A h \in (i + 1)..(j - 1) : ~SetsCharacter(Trim(content[h]))
  IN [n \in 1..Len(at) |->
        [scene_number |-> scene.scene_number,
         character |-> Trim(content[speaker(at[n])]),
         line_number |-> n,
         text |-> Trim(content[at[n]]),
         length |-> WordCount(Trim(content[at[n]])),
         tone |-> DetectTone(Trim(content[at[n]]))]]

\* extractDialogue(scenes, characters), from the k-th scene on
RECURSIVE ExtractDialogueFrom(_, _)
ExtractDialogueFrom(scenes, k) ==
  IF k > Len(scenes) THEN <<>>
  ELSE SceneDialogue(scenes[k]) \o ExtractDialogueFrom(scenes, k + 1)

ExtractDialogue(scenes) == ExtractDialogueFrom(scenes, 1)

\* ---- identifyBeats on its own: scenes are extracted in order, then the
\* beats are identified
InitBeats ==
  /\ scripts = <<>>
  /\ story_beats = {}
  /\ learned_patterns = <<>>
  /\ patterns = Absent
  /\ result = NoResult
  /\ lines = <<LineEmpty>>
  /\ parsed = NotParsed
  /\ toneText = <<>>
  /\ tone = <<>>
  /\ beatScenes = <<>>
  /\ identifiedBeats = <<>>
  /\ scenesTable = <<>>
  /\ charactersTable = <<>>
  /\ dialogueTable = <<>>
  /\ saves = 0
  /\ saveErrors = FALSE
  /\ corpus = <<>>
  /\ enginePatterns = <<>>
  /\ engineRun = NoRun
  /\ batch = NewBatchParser

\* one more scene, starting no earlier than the scene before it
AddScene(page, dialogue) ==
  /\ identifiedBeats = <<>>
  /\ Len(beatScenes) < MaxBeatScenes
  /\ beatScenes # <<>> => beatScenes[Len(beatScenes)].page_start <= page
  /\ beatScenes' = Append(beatScenes,
                          [scene_number |-> Len(beatScenes) + 1, page_start |-> page,
                           dialogue_lines |-> dialogue, location |-> Unknown])
  /\ UNCHANGED <<identifiedBeats, besideBeats>>

\* parseScript, step 4: const beats = this.identifyBeats(scenes, text)
StepIdentifyBeats ==
  /\ identifiedBeats = <<>>
  /\ identifiedBeats' = <<IdentifyBeats(beatScenes)>>
  /\ UNCHANGED <<beatScenes, besideBeats>>

NextBeats ==
  \/ \E page \in ScenePageStarts, dialogue \in SceneDialogues : AddScene(page, dialogue)
  \/ StepIdentifyBeats

SpecBeats == InitBeats /\ [][NextBeats]_vars

\* ---- the parser on its own: a text is put together line by line and parsed
InitParser ==
  /\ scripts = <<>>
  /\ story_beats = {}
  /\ learned_patterns = <<>>
  /\ patterns = Absent
  /\ result = NoResult
  /\ lines \in {<<l>> : l \in Vocabulary} \cup {<<LineEmpty>>, BlankPage}
  /\ parsed = NotParsed
  /\ toneText = <<>>
  /\ tone = <<>>
  /\ beatScenes = <<>>
  /\ identifiedBeats = <<>>
  /\ scenesTable = <<>>
  /\ charactersTable = <<>>
  /\ dialogueTable = <<>>
  /\ saves = 0
  /\ saveErrors = FALSE
  /\ corpus = <<>>
  /\ enginePatterns = <<>>
  /\ engineRun = NoRun
  /\ batch = NewBatchParser

\* the raw text gets one more line
AppendLine(l) ==
  /\ parsed.stage = "text"
  /\ Cardinality({i \in 1..Len(lines) : lines[i] # LineBlank}) < MaxLines
  /\ lines' = Append(lines, l)
  /\ UNCHANGED <<parsed, besideParser>>

\* the raw text gets a page of whitespace-only lines
AppendBlankPage ==
  /\ parsed.stage = "text"
  /\ Cardinality({i \in 1..Len(lines) : lines[i] = LineBlank}) < MaxBlankPages * LinesPerPage
  /\ lines' = lines \o BlankPage
  /\ UNCHANGED <<parsed, besideParser>>

\* parseScript on the text: scenes, characters, dialogue and beats (steps 1
\* to 4; the analysis of step 5 is returned beside them and not stored)
StepExtractScenes ==
  /\ parsed.stage = "text"
  /\ \E scenes \in {ExtractScenes(lines)} :
        parsed' = [stage |-> "scenes",
                   script_id |-> parsed.script_id,
                   scenes |-> scenes,
                   characters |-> ExtractCharacters(scenes),
                   dialogue |-> ExtractDialogue(scenes),
                   beats |-> IdentifyBeats(scenes)]
  /\ UNCHANGED <<lines, besideParser>>

NextParser ==
  \/ \E l \in Vocabulary : AppendLine(l)
  \/ AppendBlankPage
  \/ StepExtractScenes

SpecParser == InitParser /\ [][NextParser]_vars

\* ----------------------------------------------------------- saveToDatabase
\* the rows agree on the columns onConflict names
SameKey(a, b, key) == \A k \in 1..Len(key) : a[key[k]] = b[key[k]]

\* the id of the row of the table that has the key of the row given, 0 for none
KeyIndex(table, row, key) ==
  IF \E i \in 1..Len(table) : SameKey(table[i], row, key)
  THEN CHOOSE i \in 1..Len(table) : SameKey(table[i], row, key)
  ELSE 0

\* .upsert(row, { onConflict: key }): the row with the key is replaced and
\* keeps its id, a row with a new key is added
Upsert(table, row, key) ==
  IF KeyIndex(table, row, key) # 0
  THEN [table EXCEPT ![KeyIndex(table, row, key)] = row]
  ELSE Append(table, row)

SceneRow(script_id, scene) ==
  [script_id |-> script_id,
   scene_number |-> scene.scene_number,
   scene_type |-> scene.scene_type,
   location |-> scene.location,
   time |-> scene.time,
   page_start |-> scene.page_start,
   page_end |-> scene.page_end,
   content |-> scene.content,
   dialogue_ratio |-> scene.dialogue_ratio,
   action_line_count |-> Len(scene.action_lines),
   dialogue_line_count |-> Len(scene.dialogue_lines),
   characters_present |-> scene.characters_present]

\* what the writes of one saveToDatabase return: the scene, character and
\* beat upserts that return an error, the character upserts that return no
\* row, whether the query of the saved scenes returns rows, whether the
\* dialogue insert is accepted
WriteOutcomes ==
  [sceneErrors : SUBSET (1..Len(parsed.scenes)),
   characters : [1..Len(parsed.characters) -> {"row", "error", "no_row"}],
   scenesQueried : BOOLEAN,
   dialogueInserted : BOOLEAN,
   beatErrors : SUBSET (1..Len(parsed.beats))]

\* every write returns its rows
AllWritten(w) ==
  /\ w.sceneErrors = {} /\ w.beatErrors = {}
  /\ \A k \in DOMAIN w.characters : w.characters[k] = "row"
  /\ w.scenesQueried /\ w.dialogueInserted

\* 1. Save scenes: the table after the upserts of the scenes from the k-th on;
\* an upsert that returns an error is logged and writes nothing
RECURSIVE SaveScenes(_, _, _, _, _)
SaveScenes(table, script_id, scenes, k, w) ==
  IF k > Len(scenes) THEN table
  ELSE SaveScenes(IF k \in w.sceneErrors THEN table
                  ELSE Upsert(table, SceneRow(script_id, scenes[k]), <<"script_id", "scene_number">>),
                  script_id, scenes, k + 1, w)

\* characters.indexOf(char) + 1
CharacterRow(script_id, characters, k) ==
  [script_id |-> script_id,
   name |-> characters[k].name,
   first_appearance_page |-> characters[k].first_appearance,
   total_scenes |-> Len(characters[k].scenes_in),
   total_lines |-> characters[k].total_lines,
   importance_rank |-> k]

\* 2. Save characters
RECURSIVE SaveCharacters(_, _, _, _, _)
SaveCharacters(table, script_id, characters, k, w) ==
  IF k > Len(characters) THEN table
  ELSE SaveCharacters(IF w.characters[k] = "error" THEN table
                      ELSE Upsert(table, CharacterRow(script_id, characters, k),
                                  <<"script_id", "name">>),
                      script_id, characters, k + 1, w)

\* characterIdMap[name]: the id of the row the upsert of the character
\* returned, 0 for undefined
CharacterId(table, script_id, name, characters, w) ==
  IF \E k \in 1..Len(characters) : characters[k].name = name /\ w.characters[k] = "row"
  THEN KeyIndex(table, [script_id |-> script_id, name |-> name], <<"script_id", "name">>)
  ELSE 0

\* sceneIdMap[scene_number]: the id of the scene among the rows the query
\* with .eq('script_id', script_id) returned, 0 for undefined
SceneId(table, script_id, scene_number, w) ==
  IF w.scenesQueried
  THEN KeyIndex(table, [script_id |-> script_id, scene_number |-> scene_number],
                <<"script_id", "scene_number">>)
  ELSE 0

\* batch.map(...): a row per dialogue line
DialogueRowsMapped(script_id, dialogue, characters, scenesT, charactersT, w) ==
  [k \in 1..Len(dialogue) |->
     [script_id |-> script_id,
      scene_id |-> SceneId(scenesT, script_id, dialogue[k].scene_number, w),
      character_id |-> CharacterId(charactersT, script_id, dialogue[k].character, characters, w),
      line_number |-> dialogue[k].line_number,
      text |-> dialogue[k].text,
      length |-> dialogue[k].length,
      tone |-> dialogue[k].tone]]

\* mutant: the rows are inserted without the filter
DialogueRowsUnfiltered(script_id, dialogue, characters, scenesT, charactersT, w) ==
  DialogueRowsMapped(script_id, dialogue, characters, scenesT, charactersT, w)

\* dialogueRows: batch.map(...).filter(d => d.scene_id && d.character_id)
DialogueRowsOf(script_id, dialogue, characters, scenesT, charactersT, w) ==
  SelectSeq(DialogueRowsMapped(script_id, dialogue, characters, scenesT, charactersT, w),
            LAMBDA d : d.scene_id # 0 /\ d.character_id # 0)

\* 4. Save dialogue: .insert(dialogueRows), batch after batch; a batch that
\* returns an error is logged and inserts nothing (the texts of the model are
\* of one batch)
SaveDialogue(table, rows, w) == IF w.dialogueInserted THEN table \o rows ELSE table

BeatRow(script_id, beat, scenesT, w) ==
  [script_id |-> script_id,
   scene_id |-> SceneId(scenesT, script_id, beat.scene_number, w),
   beat_type |-> beat.beat_type,
   page_number |-> beat.page_number,
   description |-> beat.location,
   expected_page_range |-> <<>>,
   timing_accuracy |-> IF RLess(Rat(6, 10), beat.confidence) THEN "perfect" ELSE "approximate"]

\* 5. Save story beats: upsert on (script_id, beat_type)
RECURSIVE SaveBeats(_, _, _, _, _, _)
SaveBeats(table, script_id, beats, scenesT, k, w) ==
  IF k > Len(beats) THEN table
  ELSE LET row == BeatRow(script_id, beats[k], scenesT, w)
       IN SaveBeats(IF k \in w.beatErrors THEN table
                    ELSE {b \in table : ~SameKey(b, row, <<"script_id", "beat_type">>)} \cup {row},
                    script_id, beats, scenesT, k + 1, w)

\* saveToDatabase(parseResult) with the writes returning w
SaveToDatabase(w) ==
  /\ parsed.stage = "scenes"
  /\ saves < MaxSaves
  /\ saves' = saves + 1
  /\ saveErrors' = (saveErrors \/ ~AllWritten(w))
  /\ scenesTable' = SaveScenes(scenesTable, parsed.script_id, parsed.scenes, 1, w)
  /\ charactersTable' = SaveCharacters(charactersTable, parsed.script_id, parsed.characters, 1, w)
  /\ dialogueTable' = SaveDialogue(dialogueTable,
                                    DialogueRowsOf(parsed.script_id, parsed.dialogue,
                                                   parsed.characters,
                                                   scenesTable', charactersTable', w), w)
  /\ story_beats' = SaveBeats(story_beats, parsed.script_id, parsed.beats, scenesTable', 1, w)
  /\ UNCHANGED <<scripts, learned_patterns, patterns, result, parserVars, toneVars, beatVars, engineVars, batch>>

\* the raw text gets one more line, while it is at most MaxLines lines long
AppendShortLine(l) ==
  /\ parsed.stage = "text"
  /\ Len(lines) < MaxLines
  /\ lines' = Append(lines, l)
  /\ UNCHANGED <<parsed, besideParser>>

\* ---- parseAndSave: a text is put together, parsed, and the result saved
\* rows of another script, parsed and saved before: its first scene and a
\* character of the name the cue of the vocabulary gives
OtherScene == [script_id |-> 2, scene_number |-> 1]
OtherCharacter == [script_id |-> 2, name |-> LineCue]

\* the tables hold the rows of the other script
InitSave ==
  /\ scripts = <<>>
  /\ story_beats = {}
  /\ learned_patterns = <<>>
  /\ patterns = Absent
  /\ result = NoResult
  /\ lines \in {<<l>> : l \in Vocabulary} \cup {<<LineEmpty>>, BlankPage}
  /\ parsed = NotParsed
  /\ toneText = <<>>
  /\ tone = <<>>
  /\ beatScenes = <<>>
  /\ identifiedBeats = <<>>
  /\ scenesTable = <<OtherScene>>
  /\ charactersTable = <<OtherCharacter>>
  /\ dialogueTable = <<>>
  /\ saves = 0
  /\ saveErrors = FALSE
  /\ corpus = <<>>
  /\ enginePatterns = <<>>
  /\ engineRun = NoRun
  /\ batch = NewBatchParser

NextSave ==
  \/ \E l \in Vocabulary : AppendShortLine(l)
  \/ StepExtractScenes
  \/ \E w \in WriteOutcomes : SaveToDatabase(w)

SpecSave == InitSave /\ [][NextSave]_vars

\* ---- detectTone on its own: a text is put together and classified
InitTone ==
  /\ scripts = <<>>
  /\ story_beats = {}
  /\ learned_patterns = <<>>
  /\ patterns = Absent
  /\ result = NoResult
  /\ lines = <<LineEmpty>>
  /\ parsed = NotParsed
  /\ toneText = <<>>
  /\ tone = <<>>
  /\ beatScenes = <<>>
  /\ identifiedBeats = <<>>
  /\ scenesTable = <<>>
  /\ charactersTable = <<>>
  /\ dialogueTable = <<>>
  /\ saves = 0
  /\ saveErrors = FALSE
  /\ corpus = <<>>
  /\ enginePatterns = <<>>
  /\ engineRun = NoRun
  /\ batch = NewBatchParser

\* the text gets one more fragment
AppendFragment(f) ==
  /\ tone = <<>>
  /\ Len(toneText) < MaxFragments
  /\ toneText' = Append(toneText, f)
  /\ UNCHANGED <<tone, besideTone>>

\* this.detectTone(trimmed), called on the text (again)
CallDetectTone ==
  /\ Len(tone) < MaxToneCalls
  /\ tone' = Append(tone, DetectTone(Flatten(toneText)))
  /\ UNCHANGED <<toneText, besideTone>>

NextTone ==
  \/ \E f \in Fragments : AppendFragment(f)
  \/ CallDetectTone

SpecTone == InitTone /\ [][NextTone]_vars

\* ================================================================ properties
\* what the properties read off a finished call or request
Answered == result.kind \in {"call", "response"}
ArgPremise == result.args[1]
ArgGenre == result.args[2]
ArgTarget == result.args[3]
HasOutline == Answered /\ result.outline # <<>>
TheOutline == result.outline[1]
ValidArgs == TruthyStr(ArgPremise) /\ TruthyStr(ArgGenre)

\* the comparables of the requested genre, read off the scripts table
ComparableIds ==
  {i \in 1..Len(scripts) :
     ArgGenre[1] \in scripts[i].genre_tags /\ scripts[i].imdb_rating >= 700}
RECURSIVE RatingSum(_)
RatingSum(ids) ==
  IF ids = {} THEN 0
  ELSE LET i == CHOOSE x \in ids : TRUE IN scripts[i].imdb_rating + RatingSum(ids \ {i})
\* mean(comparable ratings) / 10 as a rational (ratings are in hundredths)
MeanRatingOverTen == Rat(RatingSum(ComparableIds), 1000 * Cardinality(ComparableIds))
ClippedMean == IF RLess(Rat(95, 100), MeanRatingOverTen) THEN Rat(95, 100) ELSE MeanRatingOverTen
WithComparables == HasOutline /\ TruthyStr(ArgGenre) /\ ComparableIds # {}

C2_StructureIncreasesForAnyTarget ==
  (HasOutline /\ ValidArgs /\ ArgTarget # <<>> /\ ArgTarget[1] >= 1) =>
     LET st == TheOutline.structure
     IN /\ st.totalPages = ArgTarget[1]
        /\ st.act3End = ArgTarget[1]
        /\ st.act1End < st.act2aMidpoint
        /\ st.act2aMidpoint < st.act2bEnd
        /\ st.act2bEnd < st.act3End

\* C2 (amended): the same for every integer targetLength >= 4, whatever
\* comparables the corpus holds
C2_StructureIncreasesFromFour ==
  (HasOutline /\ ValidArgs /\ ArgTarget # <<>> /\ ArgTarget[1] >= 4) =>
     LET st == TheOutline.structure
     IN /\ st.totalPages = ArgTarget[1]
        /\ st.act3End = ArgTarget[1]
        /\ st.act1End < st.act2aMidpoint
        /\ st.act2aMidpoint < st.act2bEnd
        /\ st.act2bEnd < st.act3End

C2_Witness ==
  /\ HasOutline /\ ValidArgs /\ ArgTarget = Present(4)
  /\ ComparableIds # {}
  /\ TheOutline.structure.act3End = 4
  /\ \E i \in ComparableIds : scripts[i].page_count = 101

\* C3: with no comparable script for the requested genre the call still returns
\* an outline, with totalPages 110 (the targetLength when one is given),
\* probability 0.65 and confidence "medium"
C3_DefaultsWithoutComparables ==
  (Answered /\ ValidArgs /\ ComparableIds = {}) =>
     /\ result.success
     /\ result.outline # <<>>
     /\ TheOutline.structure.totalPages = (IF TruthyNum(ArgTarget) THEN ArgTarget[1] ELSE 110)
     /\ TheOutline.prediction.probability = Rat(65, 100)
     /\ TheOutline.prediction.confidence = "medium"

C3_Witness ==
  /\ HasOutline /\ ValidArgs /\ ComparableIds = {}
  /\ ArgTarget = Absent
  /\ \E i \in 1..Len(scripts) : "Action" \in scripts[i].genre_tags
  /\ TheOutline.structure.totalPages = 110

\* C4 (as claimed): with comparables, the returned probability is exactly
\* min(0.95, mean(comparable ratings) / 10)
C4_ProbabilityIsClippedMean ==
  WithComparables => REq(TheOutline.prediction.probability, ClippedMean)

\* C4 (amended): with comparables, the returned probability is
\* min(0.95, mean(comparable ratings) / 10) rounded to two decimals,
\* Math.round(100 * p) / 100
C4_ProbabilityIsRoundedClippedMean ==
  WithComparables =>
     /\ TheOutline.prediction.probability.den = 100
     /\ TheOutline.prediction.probability.num =
          (200 * ClippedMean.num + ClippedMean.den) \div (2 * ClippedMean.den)

C4_Witness ==
  /\ WithComparables
  /\ Cardinality(ComparableIds) = 2
  /\ ~REq(TheOutline.prediction.probability, ClippedMean)

\* C5 (as claimed): with comparables, the confidence agrees with the returned
\* probability: "high" iff it is > 0.75, "medium" iff > 0.65 and <= 0.75,
\* "low" otherwise
C5_ConfidenceOfReturnedProbability ==
  WithComparables =>
     LET p == TheOutline.prediction.probability
         c == TheOutline.prediction.confidence
     IN /\ c = "high" <=> RLess(Rat(75, 100), p)
        /\ c = "medium" <=> (RLess(Rat(65, 100), p) /\ RLeq(p, Rat(75, 100)))
        /\ c = "low" <=> RLeq(p, Rat(65, 100))

\* C5 (amended): with comparables, the confidence is that of the probability
\* before it is rounded, p = min(0.95, mean(comparable ratings) / 10): "high"
\* iff p > 0.75, "medium" iff 0.65 < p <= 0.75, "low" otherwise
C5_ConfidenceOfUnroundedProbability ==
  WithComparables =>
     LET p == ClippedMean
         c == TheOutline.prediction.confidence
     IN /\ c = "high" <=> RLess(Rat(75, 100), p)
        /\ c = "medium" <=> (RLess(Rat(65, 100), p) /\ RLeq(p, Rat(75, 100)))
        /\ c = "low" <=> RLeq(p, Rat(65, 100))

C5_Witness ==
  /\ WithComparables
  /\ TheOutline.prediction.confidence = "high"
  /\ TheOutline.prediction.probability = Rat(75, 100)

\* C6: the probability of every returned outline lies in [0, 1]
C6_ProbabilityInUnitInterval ==
  HasOutline =>
     /\ RLeq(Rat(0, 1), TheOutline.prediction.probability)
     /\ RLeq(TheOutline.prediction.probability, Rat(1, 1))

C6_Witness ==
  /\ WithComparables
  /\ TheOutline.prediction.probability = Rat(95, 100)
  /\ \E i \in ComparableIds : scripts[i].imdb_rating = 980

\* ------------------------------------------------ PatternRecognitionEngine
\* NaN, what 0 / 0 is
NaN == Rat(0, 0)

AbsInt(n) == IF n < 0 THEN 0 - n ELSE n

RECURSIVE SumOf(_)
SumOf(arr) == IF arr = <<>> THEN 0 ELSE Head(arr) + SumOf(Tail(arr))

\* average(arr): 0 for no values
Average(arr) == IF arr = <<>> THEN Rat(0, 1) ELSE Rat(SumOf(arr), Len(arr))

\* a rating kept in hundredths, as the number it is
AsRating(r) == Rat(r.num, r.den * 100)

\* x.toFixed(1), read as a count of tenths
ToFixed1(r) == Round(10 * r.num, r.den)

\* x / y: 0 / 0 is NaN, a positive number over 0 is Infinity (denominator 0)
Divide(x, y) == Rat(x.num * y.den, x.den * y.num)

\* Math.min(1, q)
MathMin1(q) ==
  IF q.num = 0 /\ q.den = 0 THEN NaN
  ELSE IF q.num >= q.den THEN Rat(1, 1) ELSE q

\* calculateCorrelation(successVal, unsuccessVal)
CalculateCorrelation(successVal, unsuccessVal) ==
  LET diff == Rat(AbsInt(successVal.num * unsuccessVal.den - unsuccessVal.num * successVal.den),
                  successVal.den * unsuccessVal.den)
      avg == Rat(successVal.num * unsuccessVal.den + unsuccessVal.num * successVal.den,
                 2 * successVal.den * unsuccessVal.den)
  IN MathMin1(Divide(diff, avg))

\* the keys of a counts object: the values in the order they first occur
RECURSIVE KeysOf(_)
KeysOf(values) ==
  IF values = <<>> THEN <<>>
  ELSE LET before == KeysOf(SubSeq(values, 1, Len(values) - 1))
           last == values[Len(values)]
       IN IF \E k \in 1..Len(before) : before[k] = last THEN before ELSE Append(before, last)

\* Object.entries(counts) after counts[v] = (counts[v] || 0) + 1 for each value
CountEntries(values) ==
  [k \in 1..Len(KeysOf(values)) |->
     [key |-> KeysOf(values)[k],
      count |-> Cardinality({i \in 1..Len(values) : values[i] = KeysOf(values)[k]})]]

\* .sort((a, b) => b[1] - a[1]): the larger count first, equal counts as they were
SortByCount(entries) ==
  [p \in 1..Len(entries) |->
     entries[CHOOSE i \in 1..Len(entries) :
               Cardinality({j \in 1..Len(entries) :
                              \/ entries[j].count > entries[i].count
                              \/ entries[j].count = entries[i].count /\ j < i}) = p - 1]]

\* .gt('imdb_rating', 0).order('imdb_rating', { ascending: false }): the ids of
\* the rated scripts, the higher rating first, equal ratings in id order
RatedScripts(c) ==
  LET rated == {i \in 1..Len(c) : c[i].imdb_rating > 0}
  IN [p \in 1..Cardinality(rated) |->
        CHOOSE i \in rated :
          Cardinality({j \in rated : \/ c[j].imdb_rating > c[i].imdb_rating
                                     \/ c[j].imdb_rating = c[i].imdb_rating /\ j < i}) = p - 1]

\* scripts.filter(s => s.imdb_rating >= this.successThreshold)
Successful(c) == SelectSeq(RatedScripts(c), LAMBDA i : c[i].imdb_rating >= successThreshold)

\* scripts.filter(s => s.imdb_rating < this.successThreshold)
Unsuccessful(c) == SelectSeq(RatedScripts(c), LAMBDA i : c[i].imdb_rating < successThreshold)

\* .in('script_id', ids): the rows of one table that belong to the scripts, in
\* the order of the table
RECURSIVE RowsIn(_, _, _, _)
RowsIn(c, ids, table, i) ==
  IF i > Len(c) THEN <<>>
  ELSE (IF \E k \in 1..Len(ids) : ids[k] = i THEN c[i][table] ELSE <<>>)
         \o RowsIn(c, ids, table, i + 1)

\* the performances rows with scripts(imdb_rating) joined to them
WithScripts(c) ==
  [i \in 1..Len(c) |->
     [c[i] EXCEPT !.performances =
        [k \in 1..Len(c[i].performances) |->
           [oscar_wins |-> c[i].performances[k].oscar_wins,
            emmy_wins |-> c[i].performances[k].emmy_wins,
            imdb_rating |-> c[i].imdb_rating]]]]

Pattern(type, name, text, numbers, score, inSuccessful, inUnsuccessful, genres) ==
  [pattern_type |-> type,
   pattern_name |-> name,
   description |-> [text |-> text, numbers |-> numbers],
   success_correlation_score |-> score,
   found_in_successful_scripts |-> inSuccessful,
   found_in_unsuccessful_scripts |-> inUnsuccessful,
   genres |-> genres]

\* analyzeStructurePatterns(successful, unsuccessful)
AnalyzeStructurePatterns(c, successful, unsuccessful) ==
  LET avgScenesSuccess == Average([k \in 1..Len(successful) |-> c[successful[k]].scene_count])
      avgScenesUnsuccessful ==
        Average([k \in 1..Len(unsuccessful) |-> c[unsuccessful[k]].scene_count])
      avgPagesSuccess == Average([k \in 1..Len(successful) |-> c[successful[k]].page_count])
  IN <<Pattern("structure", "Optimal Scene Count",
               "Successful scripts average {} scenes vs {} in less successful ones",
               <<ToFixed1(avgScenesSuccess), ToFixed1(avgScenesUnsuccessful)>>,
               CalculateCorrelation(avgScenesSuccess, avgScenesUnsuccessful),
               Len(successful), Len(unsuccessful), <<"all">>),
       Pattern("structure", "Optimal Page Count",
               "Successful scripts average {} pages",
               <<ToFixed1(avgPagesSuccess)>>,
               Rat(70, 100), Len(successful), 0, <<"all">>)>>

\* analyzeDialoguePatterns(successful, unsuccessful)
AnalyzeDialoguePatterns(c, successful, unsuccessful) ==
  LET successDialogue == RowsIn(c, successful, "dialogue", 1)
      unsuccessDialogue == RowsIn(c, unsuccessful, "dialogue", 1)
      avgLengthSuccess == Average([k \in 1..Len(successDialogue) |-> successDialogue[k].length])
      avgLengthUnsuccessful ==
        Average([k \in 1..Len(unsuccessDialogue) |-> unsuccessDialogue[k].length])
      dominantTone ==
        SortByCount(CountEntries([k \in 1..Len(successDialogue) |-> successDialogue[k].tone]))[1]
  IN IF Len(successDialogue) > 0
     THEN <<Pattern("dialogue", "Optimal Line Length",
                    "Successful scripts have dialogue averaging {} words per line (vs {})",
                    <<ToFixed1(avgLengthSuccess), ToFixed1(avgLengthUnsuccessful)>>,
                    Rat(75, 100), Len(successful), Len(unsuccessful), <<"all">>),
            Pattern("dialogue", "Tone Balance",
                    "Most successful scripts lean " \o dominantTone.key \o " ({} lines)",
                    <<dominantTone.count>>,
                    Rat(65, 100), Len(successful), 0, <<"all">>)>>
     ELSE <<>>

\* analyzeCharacterPatterns(successful, unsuccessful)
AnalyzeCharacterPatterns(c, successful, unsuccessful) ==
  LET avgCharsSuccess ==
        Average([k \in 1..Len(successful) |-> Len(c[successful[k]].characters)])
      successChars == RowsIn(c, successful, "characters", 1)
      withArchetype == SelectSeq(successChars, LAMBDA ch : ch.archetype # Absent)
      archetypeCounts ==
        SortByCount(CountEntries([k \in 1..Len(withArchetype) |-> withArchetype[k].archetype[1]]))
  IN IF Len(successChars) > 0
     THEN <<Pattern("character", "Optimal Character Count",
                    "Successful scripts average {} distinct characters",
                    <<ToFixed1(avgCharsSuccess)>>,
                    Rat(70, 100), Len(successful), Len(unsuccessful), <<"all">>)>>
          \o (IF archetypeCounts # <<>>
              THEN <<Pattern("character", "Winning Archetype",
                             "Most common protagonist archetype: " \o archetypeCounts[1].key
                               \o " (found in {} successful scripts)",
                             <<archetypeCounts[1].count>>,
                             Rat(80, 100), archetypeCounts[1].count, 0, <<"all">>)>>
              ELSE <<>>)
     ELSE <<>>

\* analyzeBeatTimingPatterns(successful, unsuccessful)
AnalyzeBeatTimingPatterns(c, successful, unsuccessful) ==
  LET successBeats == RowsIn(c, successful, "story_beats", 1)
      beatTypes == KeysOf([k \in 1..Len(successBeats) |-> successBeats[k].beat_type])
      PagesOf(beatType) ==
        LET ofType == SelectSeq(successBeats, LAMBDA b : b.beat_type = beatType)
        IN [k \in 1..Len(ofType) |-> ofType[k].page_number]
  IN [t \in 1..Len(beatTypes) |->
        Pattern("beat_timing", beatTypes[t] \o " Timing",
                beatTypes[t] \o " typically occurs at page {} in successful scripts",
                <<ToFixed1(Average(PagesOf(beatTypes[t])))>>,
                Rat(85, 100), Len(PagesOf(beatTypes[t])), 0, <<"all">>)]

\* genre.toLowerCase(), for the genre tags of the corpus
GenreLowerCase(genre) ==
  CASE genre = "Drama" -> "drama"
    [] genre = "Horror" -> "horror"
    [] OTHER -> genre

\* analyzeGenrePatterns(successful, unsuccessful)
AnalyzeGenrePatterns(c, successful, unsuccessful) ==
  LET ranked == [k \in 1..Len(successful) |-> c[successful[k]]]
      RECURSIVE TagsOf(_)
      TagsOf(k) == IF k > Len(ranked) THEN <<>> ELSE ranked[k].genre_tags \o TagsOf(k + 1)
      sorted == SortByCount(CountEntries(TagsOf(1)))
      topGenres == SubSeq(sorted, 1, IF Len(sorted) < TopGenresLimit THEN Len(sorted)
                                     ELSE TopGenresLimit)
      RatingsOf(genre) ==
        LET having == SelectSeq(ranked, LAMBDA s : \E g \in 1..Len(s.genre_tags) :
                                                     s.genre_tags[g] = genre)
        IN [k \in 1..Len(having) |-> having[k].imdb_rating]
  IN [t \in 1..Len(topGenres) |->
        Pattern("genre", topGenres[t].key \o " Success Rate",
                topGenres[t].key \o " scripts average {} rating ({} successful scripts)",
                <<ToFixed1(AsRating(Average(RatingsOf(topGenres[t].key)))), topGenres[t].count>>,
                Rat(75, 100), topGenres[t].count, 0, <<GenreLowerCase(topGenres[t].key)>>)]

\* analyzeCastingPatterns(successful, unsuccessful)
AnalyzeCastingPatterns(c, successful, unsuccessful) ==
  LET successPerfs == RowsIn(WithScripts(c), successful, "performances", 1)
      awardWinnerPerfs == SelectSeq(successPerfs, LAMBDA p : p.oscar_wins > 0 \/ p.emmy_wins > 0)
      avgRatingWithAwards ==
        AsRating(Average([k \in 1..Len(awardWinnerPerfs) |-> awardWinnerPerfs[k].imdb_rating]))
  IN IF Len(successPerfs) > 0
     THEN <<Pattern("casting", "Award-Winning Cast Effect",
                    "Scripts with award-winning actors average {} rating ({} performances)",
                    <<ToFixed1(avgRatingWithAwards), Len(awardWinnerPerfs)>>,
                    Rat(82, 100), Len(awardWinnerPerfs), 0, <<"all">>)>>
     ELSE <<>>

\* what the six analyses of one run push onto this.patterns, in their order
RunPatterns(c) ==
  AnalyzeStructurePatterns(c, Successful(c), Unsuccessful(c))
    \o AnalyzeDialoguePatterns(c, Successful(c), Unsuccessful(c))
    \o AnalyzeCharacterPatterns(c, Successful(c), Unsuccessful(c))
    \o AnalyzeBeatTimingPatterns(c, Successful(c), Unsuccessful(c))
    \o AnalyzeGenrePatterns(c, Successful(c), Unsuccessful(c))
    \o AnalyzeCastingPatterns(c, Successful(c), Unsuccessful(c))

\* the row as the request carries it: JSON has no NaN, the score is then null
PatternRow(pattern) ==
  [pattern EXCEPT !.success_correlation_score =
     IF pattern.success_correlation_score = NaN THEN Absent
     ELSE Present(pattern.success_correlation_score)]

\* mutant: the patterns are inserted
RECURSIVE InsertPatterns(_, _, _)
InsertPatterns(table, pushed, k) ==
  IF k > Len(pushed) THEN table
  ELSE InsertPatterns(Append(table, PatternRow(pushed[k])), pushed, k + 1)

\* savePatterns(): every pattern of this.patterns, in order
RECURSIVE SavePatterns(_, _, _)
SavePatterns(table, pushed, k) ==
  IF k > Len(pushed) THEN table
  ELSE SavePatterns(Upsert(table, PatternRow(pushed[k]),
                           <<"pattern_type", "pattern_name">>), pushed, k + 1)

\* the scripts the corpus is made of, each with the rows that belong to it
CorpusScript(rating, pages, tags, scenes, chars, spoken, beatRows, perfs) ==
  [imdb_rating |-> rating, page_count |-> pages, genre_tags |-> tags, scene_count |-> scenes,
   characters |-> chars, dialogue |-> spoken, story_beats |-> beatRows, performances |-> perfs]

CorpusScripts ==
  {\* rated 8.0, parsed, cast known
   CorpusScript(800, 100, <<"Drama">>, 2, <<[archetype |-> <<"hero">>]>>,
                <<[length |-> 4, tone |-> "neutral"]>>,
                <<[beat_type |-> "Catalyst", page_number |-> 13]>>,
                <<[oscar_wins |-> 1, emmy_wins |-> 0]>>),
   \* rated 7.52, not parsed yet
   CorpusScript(752, 90, <<"Horror">>, 0, <<>>, <<>>, <<>>, <<>>),
   \* rated 6.5, parsed
   CorpusScript(650, 120, <<"Drama">>, 3, <<[archetype |-> <<>>]>>,
                <<[length |-> 7, tone |-> "intense"]>>, <<>>, <<>>),
   \* not rated
   CorpusScript(0, 101, <<"Drama">>, 1, <<>>, <<>>, <<>>, <<>>)}

\* ---- the pattern engine on its own: the corpus changes, engines are made
\* ---- and run
InitEngine ==
  /\ scripts = <<>>
  /\ story_beats = {}
  /\ learned_patterns = <<>>
  /\ patterns = Absent
  /\ result = NoResult
  /\ lines = <<LineEmpty>>
  /\ parsed = NotParsed
  /\ toneText = <<>>
  /\ tone = <<>>
  /\ beatScenes = <<>>
  /\ identifiedBeats = <<>>
  /\ scenesTable = <<>>
  /\ charactersTable = <<>>
  /\ dialogueTable = <<>>
  /\ saves = 0
  /\ saveErrors = FALSE
  /\ corpus = <<>>
  /\ enginePatterns = <<>>
  /\ engineRun = NoRun
  /\ batch = NewBatchParser

\* a script that is not in the corpus comes into it, with its rows
AddToCorpus(s) ==
  /\ Len(corpus) < MaxCorpus
  /\ \A i \in 1..Len(corpus) : corpus[i] # s
  /\ corpus' = Append(corpus, s)
  /\ engineRun' = [engineRun EXCEPT !.changed = TRUE]
  /\ UNCHANGED <<enginePatterns, learned_patterns, besideEngine>>

\* a script and its rows leave the corpus
RemoveFromCorpus(i) ==
  /\ i \in 1..Len(corpus)
  /\ corpus' = SubSeq(corpus, 1, i - 1) \o SubSeq(corpus, i + 1, Len(corpus))
  /\ engineRun' = [engineRun EXCEPT !.changed = TRUE]
  /\ UNCHANGED <<enginePatterns, learned_patterns, besideEngine>>

\* new PatternRecognitionEngine()
NewEngine ==
  /\ engineRun.used
  /\ enginePatterns' = <<>>
  /\ engineRun' = [engineRun EXCEPT !.used = FALSE]
  /\ UNCHANGED <<corpus, learned_patterns, besideEngine>>

\* analyzeAllPatterns()
AnalyzeAllPatterns ==
  /\ engineRun.runs < MaxRuns
  /\ IF RatedScripts(corpus) = <<>>
     THEN /\ enginePatterns' = enginePatterns
          /\ learned_patterns' = learned_patterns
     ELSE /\ enginePatterns' = enginePatterns \o RunPatterns(corpus)
          /\ learned_patterns' = SavePatterns(learned_patterns, enginePatterns', 1)
  /\ engineRun' = [outcome |-> IF RatedScripts(corpus) = <<>> THEN "returned" ELSE "complete",
                   runs |-> engineRun.runs + 1,
                   changed |-> FALSE,
                   again |-> engineRun.outcome # "none" /\ ~engineRun.changed,
                   used |-> TRUE,
                   sameInstance |-> engineRun.used]
  /\ UNCHANGED <<corpus, besideEngine>>

NextEngine ==
  \/ \E s \in CorpusScripts : AddToCorpus(s)
  \/ \E i \in 1..MaxCorpus : RemoveFromCorpus(i)
  \/ NewEngine
  \/ AnalyzeAllPatterns

SpecEngine == InitEngine /\ [][NextEngine]_vars

\* ------------------------------------------------------------- BatchParser
\* what decides the way of a script through the loop body: it has scenes
\* already; parseAndSave returns the parse result, the save having gone
\* through or not; parseScript returns null (the row is not found); parseScript
\* throws (raw_text is null)
ScriptCases == {"has_scenes", "parsed_and_saved", "parsed_save_failed", "not_found", "no_text"}

\* parseAllScripts up to the loop: the scripts are fetched in created_at order
FetchScripts(found, error) ==
  /\ batch.stage = "new"
  /\ batch' = [batch EXCEPT
                 !.stage = IF error \/ found = <<>> THEN "returned" ELSE "loop",
                 !.fetched = IF error THEN <<>> ELSE found]
  /\ UNCHANGED besideBatch

\* one pass of the loop body, for scripts[i]
ProcessScript ==
  /\ batch.stage = "loop"
  /\ batch.i < Len(batch.fetched)
  /\ LET script == batch.fetched[batch.i + 1]
     IN batch' = [batch EXCEPT
                    !.i = @ + 1,
                    !.skippedCount = IF script = "has_scenes" THEN @ + 1 ELSE @,
                    !.successCount =
                       IF script \in {"parsed_and_saved", "parsed_save_failed"} THEN @ + 1 ELSE @,
                    !.failCount = IF script \in {"not_found", "no_text"} THEN @ + 1 ELSE @]
  /\ UNCHANGED besideBatch

\* the loop is left: this.printReport()
PrintReport ==
  /\ batch.stage = "loop"
  /\ batch.i >= Len(batch.fetched)
  /\ batch' = [batch EXCEPT !.stage = "reported"]
  /\ UNCHANGED besideBatch

\* the lists of at most n scripts
RECURSIVE ScriptLists(_)
ScriptLists(n) ==
  IF n = 0 THEN {<<>>}
  ELSE ScriptLists(n - 1) \cup
       {Append(list, script) : list \in {l \in ScriptLists(n - 1) : Len(l) = n - 1},
                               script \in ScriptCases}

InitBatch == InitEngine

NextBatch ==
  \/ \E found \in ScriptLists(MaxFetched), error \in BOOLEAN : FetchScripts(found, error)
  \/ ProcessScript
  \/ PrintReport

SpecBatch == InitBatch /\ [][NextBatch]_vars

\* ---- what the parser properties read off a parsed text
ScenesExtracted == parsed.stage = "scenes"
\* the lines of the vocabulary that start, once trimmed, with INT. or EXT. in
\* either case
HeaderLines == {LineHeader, LineHeaderMalformed}
HeaderPositions == {i \in 1..Len(lines) : lines[i] \in HeaderLines}
\* the position in the text of its k-th header line
KthHeader(k) ==
  CHOOSE i \in HeaderPositions : Cardinality({j \in HeaderPositions : j < i}) = k - 1
\* the position of the last line before the header after the k-th, or of the
\* last line of the text
LastLineOf(k) ==
  IF k < Cardinality(HeaderPositions) THEN KthHeader(k + 1) - 1 ELSE Len(lines)
\* the lines from the k-th header up to the next one, trimmed
TrimmedBlock(k) ==
  [j \in 1..(LastLineOf(k) - KthHeader(k) + 1) |-> Trim(lines[KthHeader(k) + j - 1])]

\* C7: extractScenes emits exactly one scene per header line, in input order
\* (the k-th scene starts with the k-th header line) and numbered 1..k without
\* gaps; the scene open at the end of the input is emitted, and a text without
\* a header line gives no scene.
C7_OneScenePerHeaderLine ==
  ScenesExtracted =>
    /\ Len(parsed.scenes) = Cardinality(HeaderPositions)
    /\ \A k \in 1..Len(parsed.scenes) :
         /\ parsed.scenes[k].scene_number = k
         /\ parsed.scenes[k].content # <<>>
         /\ parsed.scenes[k].content[1] = Trim(lines[KthHeader(k)])
    /\ (HeaderPositions = {} => parsed.scenes = <<>>)

\* two header lines, the second followed by a further line and by no header:
\* two scenes come out
C7_Witness ==
  /\ ScenesExtracted
  /\ Cardinality(HeaderPositions) = 2
  /\ Len(parsed.scenes) = 2
  /\ Len(lines) \notin HeaderPositions
  /\ lines[1] \notin HeaderLines

\* C8: every emitted scene has a page_end that is not null, and page_start is
\* at most page_end.
C8_PageStartAtMostPageEnd ==
  ScenesExtracted =>
    \A k \in 1..Len(parsed.scenes) :
       /\ parsed.scenes[k].page_end # Null
       /\ parsed.scenes[k].page_start <= parsed.scenes[k].page_end

\* a scene opened after the first page and closed on a later page than it
\* was opened on
C8_Witness ==
  /\ ScenesExtracted
  /\ \E k \in 1..Len(parsed.scenes) :
       /\ parsed.scenes[k].page_start >= 1
       /\ parsed.scenes[k].page_start < parsed.scenes[k].page_end

\* C9: the dialogue_ratio of every emitted scene is dialogue_lines over
\* dialogue_lines + action_lines + 1, at least 0 and less than 1; a scene
\* without dialogue lines is emitted with ratio 0.
C9_DialogueRatioSmoothed ==
  ScenesExtracted =>
    \A k \in 1..Len(parsed.scenes) :
       LET scene == parsed.scenes[k]
           d == Len(scene.dialogue_lines)
           a == Len(scene.action_lines)
       IN /\ scene.dialogue_ratio.den > 0
          /\ REq(scene.dialogue_ratio, Rat(d, d + a + 1))
          /\ RLeq(Rat(0, 1), scene.dialogue_ratio)
          /\ RLess(scene.dialogue_ratio, Rat(1, 1))
          /\ (d = 0 => scene.dialogue_ratio.num = 0)

\* a scene all of whose filed lines are dialogue (the ratio would be 1 without
\* the smoothing term) next to a scene without any dialogue line
C9_Witness ==
  /\ ScenesExtracted
  /\ \E k \in 1..Len(parsed.scenes) :
       /\ Len(parsed.scenes[k].dialogue_lines) >= 1
       /\ Len(parsed.scenes[k].action_lines) = 0
  /\ \E k \in 1..Len(parsed.scenes) : Len(parsed.scenes[k].dialogue_lines) = 0

\* C10: a header line that does not fit "(INT.|EXT.) location - TIME" opens a
\* scene all the same, with location UNKNOWN and time DAY, and the lines after
\* it are parsed: they join its content up to the next header line, which
\* opens the next scene.  (A header line that fits gets its own location and
\* time.)
C10_UnparsableHeaderStillOpensScene ==
  ScenesExtracted =>
    \A k \in 1..Cardinality(HeaderPositions) :
       /\ k <= Len(parsed.scenes)
       /\ parsed.scenes[k].content = TrimmedBlock(k)
       /\ lines[KthHeader(k)] = LineHeaderMalformed =>
            /\ parsed.scenes[k].location = Unknown
            /\ parsed.scenes[k].time = <<"D", "A", "Y">>
       /\ lines[KthHeader(k)] = LineHeader =>
            /\ parsed.scenes[k].location = <<"b">>
            /\ parsed.scenes[k].time = <<"D", "U", "S", "K">>

\* an unparsable header line, then a line of its scene, then the header line
\* of a next scene
C10_Witness ==
  /\ ScenesExtracted
  /\ \E k \in 1..Len(parsed.scenes) :
       /\ k < Len(parsed.scenes)
       /\ lines[KthHeader(k)] = LineHeaderMalformed
       /\ parsed.scenes[k].location = Unknown
       /\ Len(parsed.scenes[k].content) >= 2

\* the position of the first header line, past the end when there is none
FirstHeader == IF HeaderPositions = {} THEN Len(lines) + 1 ELSE KthHeader(1)
InSeq(x, seq) == \E k \in 1..Len(seq) : seq[k] = x

\* C24: the lines before the first header line are in no scene: there are as
\* many scenes as header lines, the content of the k-th is the lines from the
\* k-th header line up to the next, and what a scene holds as dialogue_lines,
\* action_lines and characters_present are lines of its content; every
\* character is present in a scene and every dialogue line is spoken in the
\* content of its scene; a text with no header line gives nothing at all.
C24_OpeningLinesInNoScene ==
  ScenesExtracted =>
    /\ Len(parsed.scenes) = Cardinality(HeaderPositions)
    /\ \A k \in 1..Len(parsed.scenes) :
         LET scene == parsed.scenes[k]
         IN /\ scene.content = TrimmedBlock(k)
            /\ \A d \in 1..Len(scene.dialogue_lines) : InSeq(scene.dialogue_lines[d], scene.content)
            /\ \A a \in 1..Len(scene.action_lines) : InSeq(scene.action_lines[a], scene.content)
            /\ \A c \in 1..Len(scene.characters_present) :
                  InSeq(scene.characters_present[c], scene.content)
    /\ \A c \in 1..Len(parsed.characters) :
         \E k \in 1..Len(parsed.scenes) :
            InSeq(parsed.characters[c].name, parsed.scenes[k].characters_present)
    /\ \A d \in 1..Len(parsed.dialogue) :
         /\ parsed.dialogue[d].scene_number \in 1..Len(parsed.scenes)
         /\ InSeq(parsed.dialogue[d].text, parsed.scenes[parsed.dialogue[d].scene_number].content)
         /\ InSeq(parsed.dialogue[d].character,
                  parsed.scenes[parsed.dialogue[d].scene_number].characters_present)
    /\ (FirstHeader > Len(lines) =>
          parsed.scenes = <<>> /\ parsed.characters = <<>> /\ parsed.dialogue = <<>>)

\* a cue and a speech come before the only header line: one scene, which
\* holds the header line alone, no character and no dialogue
C24_Witness ==
  /\ ScenesExtracted
  /\ Len(lines) = 3
  /\ lines[1] = LineCue
  /\ lines[2] = LineSpeech
  /\ lines[3] \in HeaderLines
  /\ Len(parsed.scenes) = 1
  /\ Len(parsed.scenes[1].content) = 1
  /\ parsed.characters = <<>>
  /\ parsed.dialogue = <<>>

\* C26: the page_end of a scene is the page_start of the scene after it, and
\* the page_end of the last scene is the total page estimate of the text,
\* ceil(number of lines / 60).
C26_ScenesTileThePages ==
  ScenesExtracted =>
    /\ \A k \in 1..(Len(parsed.scenes) - 1) :
         parsed.scenes[k].page_end = parsed.scenes[k + 1].page_start
    /\ parsed.scenes # <<>> =>
         parsed.scenes[Len(parsed.scenes)].page_end = TotalPages(lines)

\* a text of more than one page with a scene on each side of the page break
C26_Witness ==
  /\ ScenesExtracted
  /\ Len(lines) > LinesPerPage
  /\ Len(parsed.scenes) = 2
  /\ parsed.scenes[1].page_end = 1
  /\ parsed.scenes[2].page_start = 1
  /\ parsed.scenes[2].page_end = 2

\* ---- what the tone properties read off a text: which fragments it has.  No
\* two fragments put side by side spell one of the words of the rules, so a
\* word is in the text exactly when its fragment is.
HasFragment(f) == \E i \in 1..Len(toneText) : toneText[i] = f
NonWordFragments == {FragBang, FragQuestion, FragEllipsis, FragDash, FragSpace}
\* "yell" with no word character before it
YellStartsWord ==
  \E i \in 1..Len(toneText) :
     toneText[i] = FragYell /\ (i = 1 \/ toneText[i - 1] \in NonWordFragments)
\* "scream" with no word character after it
ScreamEndsWord ==
  \E i \in 1..Len(toneText) :
     toneText[i] = FragScream /\ (i = Len(toneText) \/ toneText[i + 1] \in NonWordFragments)
\* the label of the first rule, in the stated order, that the text matches
FirstMatchingRule ==
  IF HasFragment(FragBang) \/ YellStartsWord \/ HasFragment(FragShout) \/ ScreamEndsWord
  THEN "intense"
  ELSE IF HasFragment(FragQuestion) THEN "questioning"
  ELSE IF HasFragment(FragEllipsis) \/ HasFragment(FragDash) THEN "hesitant"
  ELSE IF HasFragment(FragDamn) THEN "aggressive"
  ELSE IF HasFragment(FragLove) THEN "tender"
  ELSE IF HasFragment(FragHa) THEN "humorous"
  ELSE "neutral"

\* C11: detectTone returns one label of the seven, that of the first rule
\* that matches in the order exclamation or yell/shout/scream, question mark,
\* ellipsis or em-dash, profanity, love/care/sweet, ha/heh/funny, else
\* neutral; a text with both "!" and "?" is intense; every call on the same
\* text returns the same label.
C11_ToneIsFirstMatchingRule ==
  \A k \in 1..Len(tone) :
     /\ tone[k] \in {ToneLabels[j] : j \in 1..7}
     /\ tone[k] = FirstMatchingRule
     /\ (HasFragment(FragBang) /\ HasFragment(FragQuestion) => tone[k] = "intense")
     /\ tone[k] = tone[1]

\* a text with a question mark before an exclamation mark, classified twice
C11_Witness ==
  /\ Len(tone) = 2
  /\ \E i, j \in 1..Len(toneText) :
       i < j /\ toneText[i] = FragQuestion /\ toneText[j] = FragBang
  /\ tone[1] = "intense"
  /\ tone[2] = "intense"

\* ---- what the beat properties read off a call of identifyBeats
BeatsIdentified == identifiedBeats # <<>>
TheBeats == identifiedBeats[1]
\* the position of a beat type in the catalog
CatalogIndex(type) == CHOOSE k \in 1..7 : BeatTemplates[k].name = type
WindowHasScene(k) ==
  \E i \in 1..Len(beatScenes) :
     /\ beatScenes[i].page_start >= BeatTemplates[k].range[1]
     /\ beatScenes[i].page_start <= BeatTemplates[k].range[2]

\* C12: identifyBeats returns at most one beat per entry of the seven-beat
\* catalog, in catalog order; an entry with no scene starting in its window
\* gives no beat (fewer than seven beats, none included, is a result); no
\* beat_type appears twice.
C12_AtMostOneBeatPerTemplate ==
  BeatsIdentified =>
    /\ Len(TheBeats) <= 7
    /\ \A i \in 1..Len(TheBeats) :
         /\ \E k \in 1..7 : BeatTemplates[k].name = TheBeats[i].beat_type
         /\ WindowHasScene(CatalogIndex(TheBeats[i].beat_type))
    /\ \A i, j \in 1..Len(TheBeats) :
         i < j => CatalogIndex(TheBeats[i].beat_type) < CatalogIndex(TheBeats[j].beat_type)
    /\ \A k \in 1..7 :
         ~WindowHasScene(k) => \A i \in 1..Len(TheBeats) : TheBeats[i].beat_type # BeatTemplates[k].name

\* two scenes start in one window, a third in a later window, and no scene in
\* the windows between: two beats
C12_Witness ==
  /\ BeatsIdentified
  /\ Len(TheBeats) = 2
  /\ \E i, j \in 1..Len(beatScenes) :
       i < j /\ beatScenes[i].page_start = 1 /\ beatScenes[j].page_start = 3
  /\ TheBeats[1].beat_type = "Opening Image"
  /\ TheBeats[2].beat_type = "Midpoint"

\* the scenes that start in the window of the k-th template
Candidates(k) ==
  {i \in 1..Len(beatScenes) :
     /\ beatScenes[i].page_start >= BeatTemplates[k].range[1]
     /\ beatScenes[i].page_start <= BeatTemplates[k].range[2]}

\* C21: the scene a beat is anchored on is a scene that starts in the window
\* of the beat's template, no scene of the window has more dialogue lines, and
\* every scene of the window that comes before it has fewer; the beat's
\* page_number is the page_start of that scene and lies in the window.
C21_AnchorIsFirstOfMostDialogue ==
  BeatsIdentified =>
    \A b \in 1..Len(TheBeats) :
      LET k == CatalogIndex(TheBeats[b].beat_type)
          anchor == TheBeats[b].scene_number
      IN /\ anchor \in Candidates(k)
         /\ \A j \in Candidates(k) :
               /\ Len(beatScenes[j].dialogue_lines) <= Len(beatScenes[anchor].dialogue_lines)
               /\ j < anchor =>
                    Len(beatScenes[j].dialogue_lines) < Len(beatScenes[anchor].dialogue_lines)
         /\ TheBeats[b].page_number = beatScenes[anchor].page_start
         /\ TheBeats[b].page_number >= BeatTemplates[k].range[1]
         /\ TheBeats[b].page_number <= BeatTemplates[k].range[2]

\* three scenes start in the first window, the first without dialogue, the
\* two others with as many lines as each other: the beat is on the second
C21_Witness ==
  /\ BeatsIdentified
  /\ Candidates(1) = {1, 2, 3}
  /\ beatScenes[1].dialogue_lines = <<>>
  /\ beatScenes[2].dialogue_lines # <<>>
  /\ beatScenes[3].dialogue_lines = beatScenes[2].dialogue_lines
  /\ TheBeats[1].scene_number = 2

\* C22 as claimed: the window of a template is its two bounds taken as
\* percentages of the total page estimate of the text: the page of every beat
\* lies between range[0] and range[1] percent of totalPages.
C22_WindowsArePercentOfTotal ==
  ScenesExtracted =>
    \A b \in 1..Len(parsed.beats) :
      LET template == BeatTemplates[CatalogIndex(parsed.beats[b].beat_type)]
      IN /\ 100 * parsed.beats[b].page_number >= template.range[1] * TotalPages(lines)
         /\ 100 * parsed.beats[b].page_number <= template.range[2] * TotalPages(lines)

\* C23: a beat has confidence 0.7 when more than one scene starts in the
\* window of its template and 0.5 when one does; there is no other value.
C23_ConfidenceByCandidateCount ==
  BeatsIdentified =>
    \A b \in 1..Len(TheBeats) :
      LET count == Cardinality(Candidates(CatalogIndex(TheBeats[b].beat_type)))
      IN /\ count >= 1
         /\ count > 1 => TheBeats[b].confidence = Rat(7, 10)
         /\ count = 1 => TheBeats[b].confidence = Rat(5, 10)
         /\ TheBeats[b].confidence \in {Rat(7, 10), Rat(5, 10)}

\* two scenes start in the first window and one in the second: a beat of each
\* confidence
C23_Witness ==
  /\ BeatsIdentified
  /\ Cardinality(Candidates(1)) = 2
  /\ Cardinality(Candidates(2)) = 1
  /\ TheBeats[1].confidence = Rat(7, 10)
  /\ TheBeats[2].confidence = Rat(5, 10)

\* ---- what the structure properties read off the corpus
\* sum of the page counts of the comparables, a missing page count taken as 110
RECURSIVE ComparablePageSum(_)
ComparablePageSum(ids) ==
  IF ids = {} THEN 0
  ELSE LET i == CHOOSE x \in ids : TRUE
       IN (IF scripts[i].page_count = 0 THEN 110 ELSE scripts[i].page_count)
            + ComparablePageSum(ids \ {i})
NoComparables == ~TruthyStr(ArgGenre) \/ ComparableIds = {}

\* C17 (as claimed): in every outline the milestones are the fixed fractions of
\* structure.totalPages: act1End = round(0.25 * totalPages), act2aMidpoint =
\* round(0.50 * totalPages), act2bEnd = round(0.75 * totalPages), act3End =
\* totalPages
C17_MilestonesAreFractionsOfTotal ==
  HasOutline =>
     LET st == TheOutline.structure
     IN /\ st.act1End = Round(st.totalPages, 4)
        /\ st.act2aMidpoint = Round(st.totalPages, 2)
        /\ st.act2bEnd = Round(3 * st.totalPages, 4)
        /\ st.act3End = st.totalPages

\* C17 (amended): with a targetLength the milestones are the rounded quarters
\* of targetLength; without one and with comparables they are the rounded
\* quarters of the unrounded mean page count, whose rounding is totalPages;
\* without one and without comparables they are the constants 30, 60, 90 of
\* 110 pages.  act3End = totalPages in every outline.
C17_MilestonesPerCase ==
  HasOutline =>
     LET st == TheOutline.structure
         n == Cardinality(ComparableIds)
         sum == ComparablePageSum(ComparableIds)
     IN /\ st.act3End = st.totalPages
        /\ TruthyNum(ArgTarget) =>
             /\ st.totalPages = ArgTarget[1]
             /\ st.act1End = Round(ArgTarget[1], 4)
             /\ st.act2aMidpoint = Round(ArgTarget[1], 2)
             /\ st.act2bEnd = Round(3 * ArgTarget[1], 4)
        /\ (~TruthyNum(ArgTarget) /\ ~NoComparables) =>
             /\ st.totalPages = Round(sum, n)
             /\ st.act1End = Round(sum, 4 * n)
             /\ st.act2aMidpoint = Round(sum, 2 * n)
             /\ st.act2bEnd = Round(3 * sum, 4 * n)
        /\ (~TruthyNum(ArgTarget) /\ NoComparables) =>
             /\ st.totalPages = 110
             /\ st.act1End = 30
             /\ st.act2aMidpoint = 60
             /\ st.act2bEnd = 90

\* two comparables of 101 and 110 pages, no targetLength: the mean is 105.5,
\* totalPages 106, act1End round(26.375) = 26 where round(0.25 * 106) is 27
C17_Witness ==
  /\ HasOutline /\ ~TruthyNum(ArgTarget) /\ ~NoComparables
  /\ Cardinality(ComparableIds) = 2
  /\ TheOutline.structure.totalPages = 106
  /\ TheOutline.structure.act1End = 26

\* ---- what the beat-page properties read off the corpus
\* the story_beats rows of the comparables, all types and one type
ComparableBeatRows == {b \in story_beats : b.script_id \in ComparableIds}
BeatRowsOfType(type) == {b \in ComparableBeatRows : b.beat_type = type}
RECURSIVE BeatPageSum(_)
BeatPageSum(rows) ==
  IF rows = {} THEN 0
  ELSE LET r == CHOOSE x \in rows : TRUE IN r.page_number + BeatPageSum(rows \ {r})
AveragedPage(type) == Round(BeatPageSum(BeatRowsOfType(type)), Cardinality(BeatRowsOfType(type)))
\* the seven beats: the outline's page, the beat type, the page of the default
\* table, and the page the outline falls back to
SevenBeats ==
  LET o == TheOutline
  IN <<<<o.act1.beats.OpeningImage, "Opening Image", 1, 1>>,
       <<o.act1.beats.IncitingIncident, "Inciting Incident", 12, 12>>,
       <<o.act1.beats.BreakIntoTwo, "End of Act 1", 25, o.structure.act1End>>,
       <<o.act2a.beats.Midpoint, "Midpoint", 60, o.structure.act2aMidpoint>>,
       <<o.act2b.beats.AllIsLost, "All Is Lost", 75, o.structure.act2bEnd - 15>>,
       <<o.act3.beats.Climax, "Climax", 95, o.structure.act3End - 10>>,
       <<o.act3.beats.FinalImage, "Resolution", 110, o.structure.act3End>>>>

C27_ConfidenceNeverLow ==
  HasOutline =>
     LET p == TheOutline.prediction
     IN /\ p.confidence \in {"medium", "high"}
        /\ NoComparables => p.probability = Rat(65, 100) /\ p.confidence = "medium"
        /\ ~NoComparables => RLeq(Rat(70, 100), p.probability)

\* the corpus holds a script of the genre rated 6.9, below the floor, beside
\* one rated 7.0: the prediction is 0.70 and "medium"
C27_Witness ==
  /\ WithComparables
  /\ \E i \in 1..Len(scripts) :
       ArgGenre[1] \in scripts[i].genre_tags /\ scripts[i].imdb_rating = 690
  /\ TheOutline.prediction.probability = Rat(70, 100)
  /\ TheOutline.prediction.confidence = "medium"

\* the pages of the seven beats of an outline, in the order of SevenBeats
BeatPages(o) ==
  <<o.act1.beats.OpeningImage, o.act1.beats.IncitingIncident, o.act1.beats.BreakIntoTwo,
    o.act2a.beats.Midpoint, o.act2b.beats.AllIsLost, o.act3.beats.Climax,
    o.act3.beats.FinalImage>>
\* the page of the beat type comes from the beat table: the default table, or
\* the comparables' rows of that type
FromBeatTable(type) ==
  \/ NoComparables
  \/ ComparableBeatRows = {}
  \/ BeatRowsOfType(type) # {} /\ AveragedPage(type) # 0

\* C28: a call with a targetLength returns the premise, genre and prediction
\* of the call without it on the same corpus, and every beat page that comes
\* from the beat table is the page of that call, at the page the table gives:
\* it is not rescaled to the requested length
C28_TargetLengthLeavesBeatTablePages ==
  (HasOutline /\ TruthyNum(ArgTarget)) =>
     LET untargeted == Outline(ArgPremise, ArgGenre, Absent)
     IN /\ TheOutline.premise = untargeted.premise
        /\ TheOutline.genre = untargeted.genre
        /\ TheOutline.prediction = untargeted.prediction
        /\ TheOutline.structure.totalPages = ArgTarget[1]
        /\ \A k \in 1..7 :
             FromBeatTable(SevenBeats[k][2]) =>
               /\ BeatPages(TheOutline)[k] = BeatPages(untargeted)[k]
               /\ BeatPages(TheOutline)[k] =
                    IF NoComparables \/ ComparableBeatRows = {} THEN SevenBeats[k][3]
                    ELSE AveragedPage(SevenBeats[k][2])

\* a four-page outline is requested: the Midpoint stays at page 62, the
\* comparables' average, past the end of the outline, and the Climax, which
\* has no row, moves with act3End
C28_Witness ==
  /\ WithComparables /\ ArgTarget = Present(4)
  /\ BeatRowsOfType("Midpoint") # {}
  /\ TheOutline.act2a.beats.Midpoint = 62
  /\ TheOutline.structure.act2aMidpoint = 2
  /\ TheOutline.act3.beats.Climax = 4 - 10
  /\ Outline(ArgPremise, ArgGenre, Absent).act3.beats.Climax # 4 - 10

BeginsWithDirective(line) ==
  \E w \in {<<"I", "N", "T", ".">>, <<"E", "X", "T", ".">>, <<"F", "A", "D", "E">>, <<"C", "U", "T">>} :
     /\ Len(line) >= Len(w)
     /\ SubSeq(line, 1, Len(w)) = w

\* C20 (as claimed): no line that begins with INT., EXT., FADE or CUT is filed
\* as dialogue, neither in a scene's dialogue_lines nor as a record of
\* extractDialogue, also when a character cue comes before it
C20_DirectivesNeverDialogue ==
  ScenesExtracted =>
    /\ \A k \in 1..Len(parsed.scenes) :
         \A n \in 1..Len(parsed.scenes[k].dialogue_lines) :
            ~BeginsWithDirective(parsed.scenes[k].dialogue_lines[n])
    /\ \A n \in 1..Len(parsed.dialogue) : ~BeginsWithDirective(parsed.dialogue[n].text)

\* C19 (as claimed): saving a parse result is idempotent: a second run of
\* saveToDatabase for the same script and the same parse result leaves the
\* tables scenes, characters, dialogue and story_beats with the rows they had
\* after the first run (every write of both runs returning its rows)
C19_SecondSaveChangesNothing ==
  [][(saves >= 1 /\ saves' = saves + 1 /\ ~saveErrors') =>
       /\ scenesTable' = scenesTable
       /\ charactersTable' = charactersTable
       /\ dialogueTable' = dialogueTable
       /\ story_beats' = story_beats]_vars

\* C30: every row of the dialogue table has a scene_id and a character_id,
\* and they are the ids of a scenes row and of a characters row of the row's
\* script, whatever the writes of the saves returned
C30_DialogueRowsReferenceStoredRows ==
  \A n \in 1..Len(dialogueTable) :
     LET d == dialogueTable[n]
     IN /\ d.scene_id \in 1..Len(scenesTable)
        /\ scenesTable[d.scene_id].script_id = d.script_id
        /\ d.character_id \in 1..Len(charactersTable)
        /\ charactersTable[d.character_id].script_id = d.script_id

\* the parse result, with a line of dialogue, was saved twice beside the rows
\* of another script; a write returned an error or no row, and the line is
\* in the table once, with the ids of the rows of its own script
C30_Witness ==
  /\ saves = 2 /\ saveErrors
  /\ Len(parsed.dialogue) = 1
  /\ Len(dialogueTable) = 1
  /\ scenesTable[1] = OtherScene /\ charactersTable[1] = OtherCharacter
  /\ dialogueTable[1].scene_id = 2 /\ dialogueTable[1].character_id = 2

\* ---- what the pattern properties read off a run of the engine
\* a run follows a run with nothing done to the corpus in between
RunsAgain ==
  /\ engineRun'.runs = engineRun.runs + 1
  /\ engineRun.outcome # "none"
  /\ ~engineRun.changed

UniquePatternKeys ==
  \A i, j \in 1..Len(learned_patterns) :
    SameKey(learned_patterns[i], learned_patterns[j], <<"pattern_type", "pattern_name">>) => i = j

\* C13: a run of the engine that follows a run on the same corpus, on the
\* same engine or on a new one, leaves every row of learned_patterns as it
\* was, and the table never has two rows of one (pattern_type, pattern_name).
C13_RerunKeepsLearnedPatterns ==
  /\ []UniquePatternKeys
  /\ [][RunsAgain => learned_patterns' = learned_patterns]_vars

\* the engine has run twice on one corpus without being made anew: what it
\* has pushed is twice what the table holds
C13_Witness ==
  /\ engineRun.again
  /\ engineRun.sameInstance
  /\ engineRun.outcome = "complete"
  /\ learned_patterns # <<>>
  /\ Len(enginePatterns) = 2 * Len(learned_patterns)

\* what a run on the corpus derives
DerivedRows(c) ==
  IF RatedScripts(c) = <<>> THEN {}
  ELSE {PatternRow(RunPatterns(c)[k]) : k \in 1..Len(RunPatterns(c))}

\* C14 as claimed: once the engine has run on the corpus as it is, the rows
\* of learned_patterns are exactly the patterns that run derived.
C14_StoreIsLatestDerivation ==
  (engineRun.outcome # "none" /\ ~engineRun.changed) =>
    {learned_patterns[k] : k \in 1..Len(learned_patterns)} = DerivedRows(corpus)

\* a number from 0 to 1
InUnitInterval(q) == q.den > 0 /\ 0 <= q.num /\ q.num <= q.den

\* C15 as claimed: every pattern the engine has pushed has a score that is a
\* number from 0 to 1.
C15_ScoreInUnitInterval ==
  \A k \in 1..Len(enginePatterns) :
    InUnitInterval(enginePatterns[k].success_correlation_score)

PatternTypes == {"structure", "dialogue", "character", "beat_timing", "genre", "casting"}

\* the rows an analysis is given: the successful scripts, or their rows in the
\* table the analysis reads
InputRows(type, c) ==
  CASE type = "structure" -> Len(Successful(c))
    [] type = "dialogue" -> Len(RowsIn(c, Successful(c), "dialogue", 1))
    [] type = "character" -> Len(RowsIn(c, Successful(c), "characters", 1))
    [] type = "beat_timing" -> Len(RowsIn(c, Successful(c), "story_beats", 1))
    [] type = "genre" -> Len(RowsIn(c, Successful(c), "genre_tags", 1))
    [] type = "casting" -> Len(RowsIn(c, Successful(c), "performances", 1))

\* C16 as claimed: after a run of a new engine that went through, no pattern
\* it pushed is of a type whose analysis was given no rows.
C16_EmptyInputContributesNothing ==
  (engineRun.outcome = "complete" /\ ~engineRun.changed /\ ~engineRun.sameInstance) =>
    \A type \in PatternTypes :
      InputRows(type, corpus) = 0 =>
        \A k \in 1..Len(enginePatterns) : enginePatterns[k].pattern_type # type

\* ---- what the batch properties read off a run of parseAllScripts
Reported == batch.stage = "reported"
FetchedOf(cases) == {k \in 1..Len(batch.fetched) : batch.fetched[k] \in cases}

====
